---- MODULE Spec2Model ----
(***************************************************************************)
(* Model of the Fireboard API client (custom_components/fireboard/api.py) *)
(* and of the integration around it.  A step of the model is one call of   *)
(* FireboardApiClient._api_request (with the authentication it may nest),  *)
(* or a local transition between two such calls.  The remote server is the *)
(* environment: every response is chosen nondeterministically.             *)
(*                                                                         *)
(* Spec     the client under arbitrary calls of discovery, get_devices and *)
(*          delete_alert;                                                  *)
(* OpsSpec  discovery and the device operations (get_device,               *)
(*          get_temperatures, get_alerts, create_alert, delete_alert);     *)
(* TickSpec the integration: async_setup_entry, then poll ticks            *)
(*          (async_update_data in __init__.py), some of them cancelled;    *)
(* FnSpec   authenticate and _api_request applied to every response;       *)
(* EmptyKeySpec the same against a server whose login may answer with an   *)
(*          empty key;                                                     *)
(* FlowSpec the config flow (config_flow.py);                              *)
(* SensorSpec the temperature sensor entity (sensor.py);                   *)
(* StatusSpec the API status sensor entity (sensor.py);                    *)
(* ConcSpec a refresh asked for by a service during a scheduled poll, two  *)
(*          tasks on one client;                                           *)
(* HassSpec setups and unloads of config entries in the hacs revision of   *)
(*          __init__.py, with the services of service.py.                  *)
(***************************************************************************)
EXTENDS Naturals, Sequences, FiniteSets, TLC

VARIABLES
    creds,              \* username and password are both set (constructor arguments)
    token,              \* self.token
    headers,            \* self.headers["Authorization"]: the key it carries, or NoKey
    user_id,            \* self.user_id
    working_endpoints,  \* self.working_endpoints, in insertion order
    device_cache,       \* self.device_cache
    stack,              \* call frames of the running operation, innermost last
    last,               \* the most recent _api_request: what was asked, sent and returned
    rv,                 \* what the last completed top-level call returned or raised
    nreq,               \* HTTP requests sent since the running top-level call began
    hist,               \* how the running top-level call began, and whether its
                        \* latest probe replaced a cache entry
    server,             \* how the remote API behaves: "any", "scenario7", "small"
                        \* or "emptykey"
    io,                 \* a direct call of authenticate or _api_request: the responses
                        \* it was given and what it returned
    opcall,             \* the running device operation: its arguments and the
                        \* requests it has tried so far
    tick,               \* the poll tick (async_update_data): its position, its data
                        \* and the snapshot the coordinator holds (coordinator.data)
    entry,              \* async_setup_entry: what authenticate() returned, what the
                        \* setup returned and whether hass.data holds the entry
    flow,               \* the config flow: the step it is at and what the form shows
    sensor,             \* a temperature sensor entity, the channel object the
                        \* coordinator holds for it and what its properties returned
    parked,             \* the call frames of a second task on the same client,
                        \* suspended at one of its requests
    hass,               \* Home Assistant: each config entry's position in setup or
                        \* unload, hass.data[DOMAIN] and the registered services
    status_sensor       \* the API status sensor: what its coordinator holds and
                        \* what its state property returned

\* what belongs to the integration around the client
host == <<entry, flow, sensor, parked>>

vars == <<creds, token, headers, user_id, working_endpoints, device_cache,
          stack, last, rv, nreq, hist, server, io, opcall, tick, entry, flow,
          sensor, parked, hass, status_sensor>>

----------------------------------------------------------------------------
(* Bounds of the environment                                               *)

\* device ids the server may put in a device list: 1..MaxDev
MaxDev == 1

\* alert ids a caller may pass to delete_alert: 1..MaxAlert
MaxAlert == 1

----------------------------------------------------------------------------
(* JSON values as the client sees them                                     *)

None == "None"
NoKey == "None"

\* the value stored under a dict key: absent, null or a list
SAbsent == [p |-> "absent", items |-> <<>>]
SNull == [p |-> "null", items |-> <<>>]
SList(s) == [p |-> "list", items |-> s]

NoUserprofile == [p |-> "absent", devices |-> SAbsent]
Userprofile(d) == [p |-> "dict", devices |-> d]

\* Python None (also what a JSON parse failure leaves as the payload)
JNone ==
    [k |-> "none", items |-> <<>>, devices |-> SAbsent, results |-> SAbsent,
     id |-> None, userprofile |-> NoUserprofile, other |-> FALSE]

JList(s) == [JNone EXCEPT !.k = "list", !.items = s]

JDict(dev, res, id, up, other) ==
    [k |-> "dict", items |-> <<>>, devices |-> dev, results |-> res,
     id |-> id, userprofile |-> up, other |-> other]

IsNone(b) == b.k = "none"
IsList(b) == b.k = "list"
IsDict(b) == b.k = "dict"
Has(slot) == slot.p # "absent"

\* Python truthiness of a payload: None, [] and {} are falsy
Truthy(b) ==
    \/ IsList(b) /\ b.items # <<>>
    \/ IsDict(b) /\ (Has(b.devices) \/ Has(b.results) \/ b.id # None
                      \/ b.userprofile.p # "absent" \/ b.other)

\* a dict key that is absent, or present with null or with a number
Absent == [p |-> "absent", v |-> 0]
Null == [p |-> "null", v |-> 0]
Num(v) == [p |-> "num", v |-> v]

\* Python truthiness of a token or a user id
Falsy(s) == s = None \/ s = ""

\* a device object as the server lists it: its id, and no temps or alerts key
Device(d) == [id |-> d, temps |-> SAbsent, alerts |-> SAbsent]
DeviceLists == {<<>>} \cup {<<Device(d)>> : d \in 1..MaxDev}
UserIds == {"5"}
Keys == {"abc"}

----------------------------------------------------------------------------
(* The server: the responses it may give                                   *)

Resp(st, body) == [st |-> st, body |-> body]

\* st = 0 stands for a transport failure (aiohttp.ClientError, timeout)
FailStatus == {0, 401, 404, 500}
Failures == {Resp(s, JNone) : s \in FailStatus}

NoLogin == [st |-> 0, key |-> NoKey]
NoResp == Resp(0, JNone)

AnyLogin ==
    {[st |-> 200, key |-> k] : k \in Keys \cup {NoKey}}
        \cup {[st |-> 400, key |-> NoKey], [st |-> 0, key |-> NoKey]}

ProfileBodies ==
    {JNone,
     JDict(SAbsent, SAbsent, None, NoUserprofile, FALSE),
     JDict(SAbsent, SAbsent, None, NoUserprofile, TRUE)}
        \cup {JDict(SAbsent, SAbsent, u, NoUserprofile, FALSE) : u \in UserIds}
        \cup {JDict(SAbsent, SAbsent, u, Userprofile(SAbsent), FALSE) : u \in UserIds}
        \cup {JDict(SAbsent, SAbsent, u, Userprofile(SList(l)), FALSE) :
                 u \in UserIds \cup {None}, l \in DeviceLists}

AnyProfile == Failures \cup {Resp(200, b) : b \in ProfileBodies}

ListBodies ==
    {JNone,
     JDict(SAbsent, SAbsent, None, NoUserprofile, FALSE),
     JDict(SAbsent, SAbsent, None, NoUserprofile, TRUE),
     JDict(SNull, SAbsent, None, NoUserprofile, FALSE),
     JDict(SAbsent, SNull, None, NoUserprofile, FALSE)}
        \cup {JList(l) : l \in DeviceLists}
        \cup {JDict(SList(l), SAbsent, None, NoUserprofile, FALSE) : l \in DeviceLists}
        \cup {JDict(SAbsent, SList(l), None, NoUserprofile, FALSE) : l \in DeviceLists}

\* the deployment serves device lists under these prefixes and paths only;
\* every other candidate answers with a failure
ServedVersions == {"v1", "v2", None}
ServedPaths == {"devices", "device/list"}
Served(version, endpoint) == version \in ServedVersions /\ endpoint \in ServedPaths

AnyList(version, endpoint) ==
    IF Served(version, endpoint)
    THEN Failures \cup {Resp(200, b) : b \in ListBodies}
    ELSE Failures

\* The scenario "login returns a key, GET devices returns 404, GET v1/devices
\* returns 200 with a one-device list": no other endpoint exists, and the
\* profile embeds no device list.
Scenario7Login == {[st |-> 200, key |-> k] : k \in Keys}
Scenario7Profile ==
    {r \in AnyProfile :
        ~(r.st = 200 /\ r.body.userprofile.devices.items # <<>>)}
Scenario7List(version, endpoint) ==
    IF version = "v1" /\ endpoint = "devices"
    THEN {Resp(200, JList(l)) : l \in DeviceLists \ {<<>>}}
    ELSE {Resp(404, JNone)}

\* A small deployment: the profile, when it answers, carries the user id; the
\* device list is served at devices and v1/devices only, as a bare list or as
\* a dict whose "results" value is null.
SmallProfile ==
    {r \in AnyProfile :
        \/ r.st = 404
        \/ r.st = 200 /\ (IsNone(r.body) \/ r.body.id \in UserIds)}
SmallList(version, endpoint) ==
    IF endpoint = "devices" /\ version \in {"v1", None}
    THEN {Resp(404, JNone), Resp(200, JDict(SAbsent, SNull, None, NoUserprofile, FALSE))}
            \cup {Resp(200, JList(l)) : l \in DeviceLists}
    ELSE {Resp(404, JNone)}

LoginResponses == IF server = "scenario7" THEN Scenario7Login ELSE AnyLogin
ProfileResponses ==
    IF server = "scenario7" THEN Scenario7Profile
    ELSE IF server = "small" THEN SmallProfile
    ELSE AnyProfile
ListResponses(version, endpoint) ==
    IF server = "scenario7" THEN Scenario7List(version, endpoint)
    ELSE IF server = "small" THEN SmallList(version, endpoint)
    ELSE AnyList(version, endpoint)

\* what a device, temperature or alert endpoint may answer: a failure, a 200
\* whose body is not JSON, a 200 with an empty or a non-empty object, and for a
\* POST also 201 Created
ItemBodies ==
    {JDict(SAbsent, SAbsent, None, NoUserprofile, FALSE),
     JDict(SAbsent, SAbsent, None, NoUserprofile, TRUE)}
ItemResponses(method) ==
    {Resp(404, JNone), NoResp, Resp(200, JNone)}
        \cup {Resp(200, b) : b \in ItemBodies}
        \cup (IF method = "POST"
              THEN {Resp(201, JDict(SAbsent, SAbsent, None, NoUserprofile, TRUE))}
              ELSE {})

DeleteResponses ==
    Failures \cup {Resp(200, JNone), Resp(204, JNone),
                   Resp(200, JDict(SAbsent, SAbsent, None, NoUserprofile, TRUE))}


----------------------------------------------------------------------------
(* FireboardApiClient: authenticate, _api_request, get_user_profile        *)

Methods == {"GET", "POST", "PUT", "DELETE"}

Req(method, endpoint, version, rfs) ==
    [method |-> method, endpoint |-> endpoint, version |-> version,
     raise_for_status |-> rfs]

\* the client fields a request reads and writes
\* (depth: how many authenticate calls of the running request enclose this one)
Self ==
    [creds |-> creds, token |-> token, headers |-> headers, user_id |-> user_id,
     depth |-> 0]

\* the nesting of authenticate calls at which the interpreter ends the chain
\* with RecursionError, which the innermost authenticate catches at lines 96-97
RecursionLimit == 3

\* the responses the server gives to the exchanges of one _api_request:
\* to the login POST, to the profile GET nested in authenticate, to the request
Oracle(login, prof, resp) == [login |-> login, prof |-> prof, resp |-> resp]

\* a payload taken from the body whatever the status
ResultOfAnyStatus(r) == r.body

\* lines 145-174: what _api_request returns for a response
ResultOf(r) == IF r.st = 200 THEN r.body ELSE JNone
StatusOf(r) == IF r.st = 0 THEN 500 ELSE r.st

\* lines 121-174: build the URL, send, map the response to (payload, status)
SendRequest(c, q, r, logins, trace) ==
    IF q.method \notin Methods
    THEN [token |-> c.token, headers |-> c.headers, user_id |-> c.user_id,
          result |-> JNone, status |-> 400, logins |-> logins, sends |-> 0,
          authSent |-> NoKey, trace |-> trace]
    ELSE [token |-> c.token, headers |-> c.headers, user_id |-> c.user_id,
          result |-> ResultOf(r), status |-> StatusOf(r), logins |-> logins,
          sends |-> 1, authSent |-> c.headers,
          trace |-> Append(trace, q.endpoint)]

\* authenticate calls get_user_profile, which calls _api_request, which calls
\* authenticate when no token is held
RECURSIVE ApiRequest(_, _, _)
RECURSIVE GetUserProfile(_, _)
RECURSIVE Authenticate(_, _)
RECURSIVE EnsureAuthenticated(_, _)

\* get_user_profile, lines 176-188
GetUserProfile(c, R) ==
    LET o == ApiRequest(c, Req("GET", "rest-auth/user/", None, TRUE), R)
    IN  IF Truthy(o.result) /\ o.result.id # None
        THEN [o EXCEPT !.user_id = o.result.id]
        ELSE o

\* authenticate that stores the key but leaves the Authorization header unset
AuthenticateNoHeader(c, R) ==
    IF ~c.creds
    THEN [ok |-> FALSE, token |-> c.token, headers |-> c.headers,
          user_id |-> c.user_id, logins |-> 0, trace |-> <<>>]
    ELSE IF R.login.st = 200 /\ R.login.key # NoKey
    THEN LET c1 == [c EXCEPT !.token = R.login.key]
             p == GetUserProfile(c1, Oracle(R.login, R.prof, R.prof))
         IN  [ok |-> TRUE, token |-> p.token, headers |-> p.headers,
              user_id |-> p.user_id, logins |-> 1 + p.logins,
              trace |-> <<"rest-auth/login/">> \o p.trace]
    ELSE [ok |-> FALSE, token |-> c.token, headers |-> c.headers,
          user_id |-> c.user_id, logins |-> 1, trace |-> <<"rest-auth/login/">>]

\* authenticate that takes the key of a login response whatever its status
AuthenticateAnyStatus(c, R) ==
    IF ~c.creds
    THEN [ok |-> FALSE, token |-> c.token, headers |-> c.headers,
          user_id |-> c.user_id, logins |-> 0, trace |-> <<>>]
    ELSE IF R.login.key # NoKey
    THEN LET c1 == [c EXCEPT !.token = R.login.key, !.headers = R.login.key]
             p == GetUserProfile(c1, Oracle(R.login, R.prof, R.prof))
         IN  [ok |-> TRUE, token |-> p.token, headers |-> p.headers,
              user_id |-> IF Truthy(p.result) /\ p.result.id # None
                          THEN p.result.id ELSE p.user_id,
              logins |-> 1 + p.logins,
              trace |-> <<"rest-auth/login/">> \o p.trace]
    ELSE [ok |-> FALSE, token |-> c.token, headers |-> c.headers,
          user_id |-> c.user_id, logins |-> 1, trace |-> <<"rest-auth/login/">>]

\* authenticate, lines 51-100
\* an authenticate that logs the client out when the login fails
AuthenticateForgets(c, R) ==
    IF ~c.creds
    THEN [ok |-> FALSE, token |-> c.token, headers |-> c.headers,
          user_id |-> c.user_id, logins |-> 0, trace |-> <<>>]
    ELSE IF R.login.st = 200 /\ R.login.key # NoKey
    THEN LET c1 == [c EXCEPT !.token = R.login.key, !.headers = R.login.key]
             p == GetUserProfile(c1, Oracle(R.login, R.prof, R.prof))
         IN  [ok |-> TRUE, token |-> p.token, headers |-> p.headers,
              user_id |-> IF Truthy(p.result) /\ p.result.id # None
                          THEN p.result.id ELSE p.user_id,
              logins |-> 1 + p.logins,
              trace |-> <<"rest-auth/login/">> \o p.trace]
    ELSE [ok |-> FALSE, token |-> None, headers |-> NoKey,
          user_id |-> None, logins |-> 1, trace |-> <<"rest-auth/login/">>]

Authenticate(c, R) ==
    IF ~c.creds \/ c.depth >= RecursionLimit
    THEN [ok |-> FALSE, token |-> c.token, headers |-> c.headers,
          user_id |-> c.user_id, logins |-> 0, trace |-> <<>>]
    ELSE IF R.login.st = 200 /\ R.login.key # NoKey
    THEN LET c1 == [c EXCEPT !.token = R.login.key, !.headers = R.login.key,
                             !.depth = @ + 1]
             p == GetUserProfile(c1, Oracle(R.login, R.prof, R.prof))
         IN  [ok |-> TRUE, token |-> p.token, headers |-> p.headers,
              user_id |-> IF Truthy(p.result) /\ p.result.id # None
                          THEN p.result.id ELSE p.user_id,
              logins |-> 1 + p.logins,
              trace |-> <<"rest-auth/login/">> \o p.trace]
    ELSE [ok |-> FALSE, token |-> c.token, headers |-> c.headers,
          user_id |-> c.user_id, logins |-> 1, trace |-> <<"rest-auth/login/">>]

\* lines 116-119: authenticate first when no token is held
\* a request that goes on after a login that failed
EnsureAuthenticatedLenient(c, R) ==
    IF Falsy(c.token)
    THEN [Authenticate(c, R) EXCEPT !.ok = TRUE]
    ELSE [ok |-> TRUE, token |-> c.token, headers |-> c.headers,
          user_id |-> c.user_id, logins |-> 0, trace |-> <<>>]

EnsureAuthenticated(c, R) ==
    IF Falsy(c.token)
    THEN Authenticate(c, R)
    ELSE [ok |-> TRUE, token |-> c.token, headers |-> c.headers,
          user_id |-> c.user_id, logins |-> 0, trace |-> <<>>]

\* _api_request, lines 102-174
ApiRequest(c, q, R) ==
    LET a == EnsureAuthenticated(c, R)
    IN  IF ~a.ok
        THEN [token |-> a.token, headers |-> a.headers, user_id |-> a.user_id,
              result |-> JNone, status |-> 401, logins |-> a.logins, sends |-> 0,
              authSent |-> NoKey, trace |-> a.trace]
        ELSE SendRequest([c EXCEPT !.token = a.token, !.headers = a.headers,
                                   !.user_id = a.user_id],
                         q, R.resp, a.logins, a.trace)

\* the oracles the server may present to a request whose own responses are rs
Oracles(rs) ==
    IF Falsy(token) /\ creds
    THEN {Oracle(l, p, r) : l \in LoginResponses, p \in ProfileResponses, r \in rs}
    ELSE {Oracle(NoLogin, NoResp, r) : r \in rs}

\* the record of one _api_request kept in `last`
Exchange(by, q, o, held) ==
    [by |-> by, method |-> q.method, endpoint |-> q.endpoint, version |-> q.version,
     held |-> held, result |-> o.result, status |-> o.status,
     logins |-> o.logins, sends |-> o.sends, authSent |-> o.authSent,
     trace |-> o.trace]

NoExchange ==
    [by |-> "", method |-> "", endpoint |-> "", version |-> None, held |-> FALSE,
     result |-> JNone, status |-> 0, logins |-> 0, sends |-> 0,
     authSent |-> NoKey, trace |-> <<>>]

----------------------------------------------------------------------------
(* Call frames and return values                                           *)

\* (size: the length the working-endpoint dict had when get_devices began to
\* iterate over it)
Frame(fn, pc, arg) ==
    [fn |-> fn, pc |-> pc, arg |-> arg, vi |-> 0, ei |-> 0, eps |-> <<>>,
     idx |-> 0, todo |-> <<>>, size |-> 0]

Top == stack[Len(stack)]
Idle == stack = <<>>
Running(fn, pc) == ~Idle /\ Top.fn = fn /\ Top.pc = pc
Front(s) == SubSeq(s, 1, Len(s) - 1)
SetTop(f) == [stack EXCEPT ![Len(stack)] = f]

\* kind: "value" (val), "bool" (ok), "raise" (an exception left the call),
\* "endpoints" (the working-endpoint dict itself), "none" (nothing returned yet)
Returned(fn, kind, val, ok) == [fn |-> fn, kind |-> kind, val |-> val, ok |-> ok]
NoReturn == Returned("", "none", JNone, FALSE)

\* the top frame returns r: its caller resumes, or the top-level call is over
Return(r) ==
    /\ stack' = Front(stack)
    /\ rv' = IF Len(stack) = 1 THEN r ELSE rv

\* no direct call has been made
NoCall ==
    [fn |-> "", creds |-> FALSE, held |-> FALSE, method |-> "", rfs |-> FALSE,
     login |-> NoLogin, resp |-> NoResp, ok |-> FALSE, result |-> JNone,
     status |-> 0, sends |-> 0, logins |-> 0]

\* a key that a snapshot dict does not have
Missing == "<missing>"

\* the dict async_update_data builds and returns; kind "raise" stands for an
\* exception leaving the function, "none" for no result yet
Snapshot(kind, profile, devices, we, error, api_status) ==
    [kind |-> kind, profile |-> profile, devices |-> devices,
     working_endpoints |-> we, error |-> error, api_status |-> api_status]
NoSnapshot == Snapshot("none", JNone, <<>>, [p |-> "absent", v |-> <<>>], Missing, Missing)

\* no poll tick has run; kept is the working-endpoint dict the client held
\* when the tick before this one was cancelled, and whether that was during
\* a discovery sweep
NoKept == [p |-> "absent", v |-> <<>>, sweep |-> FALSE]
NoTick == [pc |-> "none", data |-> NoSnapshot, out |-> NoSnapshot, kept |-> NoKept]

\* async_setup_entry has not run
NoEntry == [auth |-> "none", result |-> "none", registered |-> FALSE]

\* the config flow has not been opened
\* (email, login, profile: what the last submitted form passed; sent: the
\* requests validate_input has made for it)
NoFlow ==
    [pc |-> "none", email |-> FALSE, login |-> FALSE, profile |-> FALSE,
     errors |-> "", created |-> FALSE, sent |-> 0]

\* a channel the snapshot does not hold, and a sensor entity just constructed
\* (sensor.py lines 451-452: no state, Fahrenheit)
\* (channels: whether the device's "channels" value is a list, absent or null)
NoChannel ==
    [found |-> FALSE, channels |-> "absent", temp |-> Absent, temperature |-> Absent,
     current_temp |-> Absent, value |-> Absent, unit |-> [p |-> "absent", v |-> <<>>]]
\* the snapshot holds the device with "channels": null
NullChannels == [NoChannel EXCEPT !.channels = "null"]
\* state and unit are the attributes _state and _unit; read, ret, uret and
\* raised tell which property was read last and what it returned
NoSensor ==
    [channel |-> NoChannel, state |-> Null, unit |-> "F", read |-> "",
     ret |-> Null, uret |-> "", raised |-> FALSE]

\* the config entries Home Assistant may hold for the integration
MaxEntries == 3
Entries == 1..MaxEntries

\* Home Assistant after async_setup (hacs revision, line 32): no entry has been
\* set up, hass.data[DOMAIN] is {} and no service is registered
NoHass == [pc |-> [e \in Entries |-> "new"], data |-> {}, services |-> {}]

\* the status sensor as constructed (sensor.py lines 128-140) on a coordinator
\* that has no data yet; read tells whether state was read since the last
\* update, ret what it returned
NoStatus ==
    [ok |-> TRUE, data |-> NoSnapshot, state |-> "connecting", read |-> FALSE,
     ret |-> ""]

\* an optional numeric argument, and the arguments of a device operation
NoArg == [p |-> "none", v |-> 0]
Arg(v) == [p |-> "num", v |-> v]
Args(device, channel, min_temp, max_temp) ==
    [device |-> device, channel |-> channel, min_temp |-> min_temp,
     max_temp |-> max_temp]
NoArgs == Args("", "", NoArg, NoArg)
NoOp == [args |-> NoArgs, tried |-> <<>>]

\* a top-level call with arguments begins
BeginOp(fn, args) ==
    /\ Idle
    /\ hist' = [op |-> fn, cached0 |-> working_endpoints # <<>>,
                prevGetDevices |-> hist.op = "get_devices" /\ rv.kind = "value",
                replaced |-> FALSE]
    /\ opcall' = [args |-> args, tried |-> <<>>]

\* a top-level call begins
Begin(fn) == BeginOp(fn, NoArgs)

\* the client fields after an _api_request that returned o
Adopt(o) ==
    /\ token' = o.token
    /\ headers' = o.headers
    /\ nreq' = nreq + Len(o.trace)

----------------------------------------------------------------------------
(* Working-endpoint cache                                                  *)

\* a sweep that tries the unversioned form first
api_versions_unversioned_first ==
    <<None, "v1", "v2", "v3", "v4", "drive", "cloud", "mobile">>

\* lines 203-204 and 225: the versions in the order the outer loop takes them
api_versions == <<"v1", "v2", "v3", "v4", "drive", "cloud", "mobile", None>>

\* lines 207-219
device_endpoints(uid) ==
    <<"devices", "device/list", "user/devices">>
        \o (IF Falsy(uid) THEN <<>>
            ELSE <<"users/" \o uid \o "/devices", "user/" \o uid \o "/devices",
                   "accounts/" \o uid \o "/devices">>)

\* line 244: f"devices_{version}" if version else "devices"
KeyFor(version) == IF Falsy(version) THEN <<"devices">> ELSE <<"devices_", version>>

\* key.startswith("devices_")
StartsWithDevices_(key) == key[1] = "devices_"

Info(endpoint, version) == [endpoint |-> endpoint, version |-> version]
Entry(key, endpoint, version) == [key |-> key, endpoint |-> endpoint, version |-> version]

HasKey(we, key) == \E i \in 1..Len(we) : we[i].key = key

\* an assignment that keeps the value a key already has (dict.setdefault)
SetItemKeepFirst(we, key, endpoint, version) ==
    IF HasKey(we, key) THEN we ELSE Append(we, Entry(key, endpoint, version))

\* an assignment that rebinds the dict to the new entry alone
SetItemReset(we, key, endpoint, version) == <<Entry(key, endpoint, version)>>

\* Python dict assignment d[key] = value: replace in place, or insert at the end
SetItem(we, key, endpoint, version) ==
    IF HasKey(we, key)
    THEN [i \in 1..Len(we) |->
            IF we[i].key = key THEN Entry(key, endpoint, version) ELSE we[i]]
    ELSE Append(we, Entry(key, endpoint, version))

\* discovery that never trusts the cache
CacheHitNever(we) == FALSE

\* discovery that sweeps once and trusts whatever the cache holds afterwards
CacheHitAlways(we) == TRUE

\* line 192: if self.working_endpoints
CacheHit(we) == we # <<>>

\* acceptance that also demands a non-empty list
AcceptedNonEmpty(status, result) == status = 200 /\ Truthy(result)

\* line 240 and line 243: the response marks a working endpoint
Accepted(status, result) ==
    status = 200 /\ (IsList(result) \/ (IsDict(result) /\ Truthy(result)))

\* lines 239-246
Record(we, version, endpoint, status, result) ==
    IF Accepted(status, result)
    THEN SetItem(we, KeyFor(version), endpoint, version)
    ELSE we

----------------------------------------------------------------------------
(* authenticate and get_user_profile called by the integration             *)

\* __init__.py lines 43-46: api.authenticate() on the client just constructed
CallAuthenticate ==
    /\ Begin("authenticate")
    /\ hist.op = ""
    /\ \E l \in LoginResponses, p \in ProfileResponses :
          LET a == Authenticate(Self, Oracle(l, p, p))
          IN  /\ token' = a.token
              /\ headers' = a.headers
              /\ user_id' = a.user_id
              /\ nreq' = Len(a.trace)
              /\ rv' = Returned("authenticate", "bool", JNone, a.ok)
    /\ last' = NoExchange
    /\ UNCHANGED <<host, io, tick, server, hass, status_sensor, creds, working_endpoints, device_cache, stack>>

\* __init__.py line 62: api.get_user_profile()
CallGetUserProfile ==
    /\ Begin("get_user_profile")
    /\ \E R \in Oracles(ProfileResponses) :
          LET o == GetUserProfile(Self, R)
          IN  /\ token' = o.token
              /\ headers' = o.headers
              /\ user_id' = o.user_id
              /\ nreq' = Len(o.trace)
              /\ last' = Exchange("get_user_profile", Req("GET", "rest-auth/user/", None, TRUE), o,
                                  ~Falsy(token))
              /\ rv' = Returned("get_user_profile", "value", o.result, FALSE)
    /\ UNCHANGED <<host, io, tick, server, hass, status_sensor, creds, working_endpoints, device_cache, stack>>

----------------------------------------------------------------------------
(* _discover_working_api_endpoints, lines 190-254                          *)

CallDiscover ==
    /\ Begin("discover")
    /\ stack' = <<Frame("discover", "enter", "")>>
    /\ last' = NoExchange
    /\ nreq' = 0
    /\ rv' = NoReturn
    /\ UNCHANGED <<host, io, tick, server, hass, status_sensor, creds, token, headers, user_id,
                   working_endpoints, device_cache>>

Sweep(f, uid) ==
    [f EXCEPT !.pc = "sweep", !.vi = 1, !.ei = 1, !.eps = device_endpoints(uid)]

\* lines 192-219: return the cache if it holds anything; else fetch the profile
\* when no user id is known and build the candidate list
DiscoverEnter ==
    /\ Running("discover", "enter")
    /\ IF CacheHit(working_endpoints)
       THEN /\ Return(Returned("discover", "endpoints", JNone, FALSE))
            /\ UNCHANGED <<token, headers, user_id, last, nreq>>
       ELSE IF Falsy(user_id)
       THEN \E R \in Oracles(ProfileResponses) :
               LET o == GetUserProfile(Self, R)
                   uid == IF Truthy(o.result) /\ o.result.id # None
                          THEN o.result.id ELSE o.user_id
               IN  /\ Adopt(o)
                   /\ user_id' = uid
                   /\ last' = Exchange("get_user_profile", Req("GET", "rest-auth/user/", None, TRUE), o,
                                       ~Falsy(token))
                   /\ stack' = SetTop(Sweep(Top, uid))
                   /\ rv' = rv
       ELSE /\ stack' = SetTop(Sweep(Top, user_id))
            /\ UNCHANGED <<token, headers, user_id, last, nreq, rv>>
    /\ UNCHANGED <<host, io, opcall, tick, server, hass, status_sensor, creds, working_endpoints, device_cache, hist>>

\* lines 222-254: one candidate of the sweep
DiscoverProbe ==
    /\ Running("discover", "sweep")
    /\ LET f == Top
           version == api_versions[f.vi]
           endpoint == f.eps[f.ei]
           q == Req("GET", endpoint, version, FALSE)
       IN  \E R \in Oracles(ListResponses(version, endpoint)) :
              LET o == ApiRequest(Self, q, R)
              IN  /\ Adopt(o)
                  /\ user_id' = o.user_id
                  /\ last' = Exchange(Top.fn, q, o, ~Falsy(token))
                  /\ working_endpoints' =
                        Record(working_endpoints, version, endpoint, o.status, o.result)
                  /\ hist' = [hist EXCEPT !.replaced =
                                 /\ working_endpoints' # working_endpoints
                                 /\ Len(working_endpoints') = Len(working_endpoints)]
                  /\ IF f.ei < Len(f.eps)
                     THEN /\ stack' = SetTop([f EXCEPT !.ei = f.ei + 1])
                          /\ rv' = rv
                     ELSE IF f.vi < Len(api_versions)
                     THEN /\ stack' = SetTop([f EXCEPT !.vi = f.vi + 1, !.ei = 1])
                          /\ rv' = rv
                     ELSE Return(Returned("discover", "endpoints", JNone, FALSE))
    /\ UNCHANGED <<host, io, opcall, tick, server, hass, status_sensor, creds, device_cache>>

----------------------------------------------------------------------------
(* get_devices, lines 256-335                                              *)

Miss == [hit |-> FALSE, kind |-> "none", val |-> JNone]
Hit(val) == [hit |-> TRUE, kind |-> "value", val |-> val]
\* len(devices) inside the log message raises TypeError when devices is None
Raise == [hit |-> TRUE, kind |-> "raise", val |-> JNone]
HitSlot(slot) == IF slot.p = "list" THEN Hit(JList(slot.items)) ELSE Raise

\* the discovered-endpoint unwrapping without its bare-list branch
UnwrapDiscoveredNoList(result) ==
    IF IsNone(result) THEN Miss
    ELSE IF IsDict(result) /\ Has(result.devices) THEN HitSlot(result.devices)
    ELSE IF IsDict(result) /\ Has(result.results) THEN HitSlot(result.results)
    ELSE Miss

\* lines 288-299: the shapes accepted from a discovered endpoint
UnwrapDiscovered(result) ==
    IF IsNone(result) THEN Miss
    ELSE IF IsList(result) THEN Hit(result)
    ELSE IF IsDict(result) /\ Has(result.devices) THEN HitSlot(result.devices)
    ELSE IF IsDict(result) /\ Has(result.results) THEN HitSlot(result.results)
    ELSE Miss

\* lines 321-328: the shapes accepted from a fallback endpoint
UnwrapFallback(result) ==
    IF IsNone(result) THEN Miss
    ELSE IF IsList(result) THEN Hit(result)
    ELSE IF IsDict(result) /\ Has(result.devices) THEN HitSlot(result.devices)
    ELSE Miss

\* lines 302-312
FallbackDevices(uid) ==
    <<Info("devices", None), Info("devices", "v1"), Info("devices", "v2"),
      Info("devices", "drive"), Info("device/list", None), Info("user/devices", None)>>
        \o (IF Falsy(uid) THEN <<>> ELSE <<Info("user/" \o uid \o "/devices", None)>>)

\* get_devices without the profile shortcut
ProfileDevicesNever(profile) == Miss

\* lines 265-269: the device list embedded in the profile, when it is non-empty
ProfileDevices(profile) ==
    IF /\ Truthy(profile)
       /\ profile.userprofile.p = "dict"
       /\ Has(profile.userprofile.devices)
       /\ profile.userprofile.devices.items # <<>>
    THEN Hit(JList(profile.userprofile.devices.items))
    ELSE Miss

CallGetDevices ==
    /\ Begin("get_devices")
    /\ stack' = <<Frame("get_devices", "start", "")>>
    /\ last' = NoExchange
    /\ nreq' = 0
    /\ rv' = NoReturn
    /\ UNCHANGED <<host, io, tick, server, hass, status_sensor, creds, token, headers, user_id,
                   working_endpoints, device_cache>>

\* lines 260-277: the profile shortcut, else call discovery
GetDevicesStart ==
    /\ Running("get_devices", "start")
    /\ \E R \in Oracles(ProfileResponses) :
          LET o == GetUserProfile(Self, R)
              profile == o.result
              d == ProfileDevices(profile)
          IN  /\ Adopt(o)
              /\ last' = Exchange("get_user_profile", Req("GET", "rest-auth/user/", None, TRUE), o,
                                  ~Falsy(token))
              /\ IF d.hit
                 THEN /\ Return(Returned("get_devices", "value", d.val, FALSE))
                      /\ user_id' = o.user_id
                 ELSE /\ user_id' = IF Truthy(profile) /\ profile.id # None
                                       /\ Falsy(o.user_id)
                                    THEN profile.id ELSE o.user_id
                      /\ stack' = SetTop([Top EXCEPT !.pc = "cached", !.idx = 1])
                                     \o <<Frame("discover", "enter", "")>>
                      /\ rv' = rv
    /\ UNCHANGED <<host, io, opcall, tick, server, hass, status_sensor, creds, working_endpoints, device_cache, hist>>

\* the positions at or after idx of the entries the loop of line 280 visits
DeviceEntries(we, idx) == {j \in idx..Len(we) : StartsWithDevices_(we[j].key)}
Least(S) == CHOOSE j \in S : \A k \in S : j <= k

\* the outcome of one candidate of get_devices
Outcome(u) ==
    IF u.kind = "raise"
    THEN Returned("get_devices", "raise", JNone, FALSE)
    ELSE Returned("get_devices", "value", u.val, FALSE)

\* an iteration that does not notice the dict growing under it
ResizedNever(f, we) == FALSE

\* line 280: the dict iterator raises RuntimeError (dictionary changed size
\* during iteration) when it is advanced after the dict has gained a key
Resized(f, we) == f.idx > 1 /\ Len(we) # f.size

\* lines 280-299: the next discovered endpoint; lines 302-312 when none is left
GetDevicesCached ==
    /\ Running("get_devices", "cached")
    /\ LET f == Top
           js == DeviceEntries(working_endpoints, f.idx)
       IN  IF Resized(f, working_endpoints)
           THEN /\ Return(Returned("get_devices", "raise", JNone, FALSE))
                /\ UNCHANGED <<token, headers, user_id, last, nreq>>
           ELSE IF js = {}
           THEN /\ stack' = SetTop([f EXCEPT !.pc = "fallback",
                                             !.todo = FallbackDevices(user_id)])
                /\ UNCHANGED <<token, headers, user_id, last, nreq, rv>>
           ELSE LET info == working_endpoints[Least(js)]
                    q == Req("GET", info.endpoint, info.version, TRUE)
                IN  \E R \in Oracles(ListResponses(info.version, info.endpoint)) :
                       LET o == ApiRequest(Self, q, R)
                           u == UnwrapDiscovered(o.result)
                       IN  /\ Adopt(o)
                           /\ user_id' = o.user_id
                           /\ last' = Exchange(Top.fn, q, o, ~Falsy(token))
                           /\ IF u.hit
                              THEN Return(Outcome(u))
                              ELSE /\ stack' = SetTop([f EXCEPT
                                                  !.idx = Least(js) + 1,
                                                  !.size = IF f.idx = 1
                                                           THEN Len(working_endpoints)
                                                           ELSE f.size])
                                   /\ rv' = rv
    /\ UNCHANGED <<host, io, opcall, tick, server, hass, status_sensor, creds, working_endpoints, device_cache, hist>>

\* lines 314-335: the next fallback endpoint; the empty list when none is left
GetDevicesFallback ==
    /\ Running("get_devices", "fallback")
    /\ LET f == Top
       IN  IF f.todo = <<>>
           THEN /\ Return(Returned("get_devices", "value", JList(<<>>), FALSE))
                /\ UNCHANGED <<token, headers, user_id, last, nreq>>
           ELSE LET info == Head(f.todo)
                    q == Req("GET", info.endpoint, info.version, TRUE)
                IN  \E R \in Oracles(ListResponses(info.version, info.endpoint)) :
                       LET o == ApiRequest(Self, q, R)
                           u == UnwrapFallback(o.result)
                       IN  /\ Adopt(o)
                           /\ user_id' = o.user_id
                           /\ last' = Exchange(Top.fn, q, o, ~Falsy(token))
                           /\ IF u.hit
                              THEN Return(Outcome(u))
                              ELSE /\ stack' = SetTop([f EXCEPT !.todo = Tail(f.todo)])
                                   /\ rv' = rv
    /\ UNCHANGED <<host, io, opcall, tick, server, hass, status_sensor, creds, working_endpoints, device_cache, hist>>

----------------------------------------------------------------------------
(* delete_alert, lines 533-572                                             *)

AlertIds == {ToString(i) : i \in 1..MaxAlert}

RECURSIVE DerivedAlerts(_, _)
\* lines 541-548: one candidate per discovered devices_ entry, in cache order
DerivedAlerts(we, alert_id) ==
    IF we = <<>> THEN <<>>
    ELSE (IF StartsWithDevices_(Head(we).key)
          THEN <<Info("alerts/" \o alert_id, Head(we).version)>>
          ELSE <<>>) \o DerivedAlerts(Tail(we), alert_id)

\* lines 538-554
DeleteCandidates(we, alert_id) ==
    DerivedAlerts(we, alert_id)
        \o <<Info("alerts/" \o alert_id, None), Info("alerts/" \o alert_id, "v1")>>

\* a delete that counts status 200 only
DeletedOnly200(status) == status = 200

\* line 567
Deleted(status) == status = 204 \/ status = 200

CallDeleteAlert ==
    /\ Begin("delete_alert")
    /\ \E a \in AlertIds :
          stack' = <<[Frame("delete_alert", "loop", a) EXCEPT
                         !.todo = DeleteCandidates(working_endpoints, a)]>>
    /\ last' = NoExchange
    /\ nreq' = 0
    /\ rv' = NoReturn
    /\ UNCHANGED <<host, io, tick, server, hass, status_sensor, creds, token, headers, user_id,
                   working_endpoints, device_cache>>

\* lines 556-572: the next candidate; False when none is left
DeleteAlertStep ==
    /\ Running("delete_alert", "loop")
    /\ LET f == Top
       IN  IF f.todo = <<>>
           THEN /\ Return(Returned("delete_alert", "bool", JNone, FALSE))
                /\ UNCHANGED <<token, headers, user_id, last, nreq>>
           ELSE LET info == Head(f.todo)
                    q == Req("DELETE", info.endpoint, info.version, TRUE)
                IN  \E R \in Oracles(DeleteResponses) :
                       LET o == ApiRequest(Self, q, R)
                       IN  /\ Adopt(o)
                           /\ user_id' = o.user_id
                           /\ last' = Exchange(Top.fn, q, o, ~Falsy(token))
                           /\ IF Deleted(o.status)
                              THEN Return(Returned("delete_alert", "bool", JNone, TRUE))
                              ELSE /\ stack' = SetTop([f EXCEPT !.todo = Tail(f.todo)])
                                   /\ rv' = rv
    /\ UNCHANGED <<host, io, opcall, tick, server, hass, status_sensor, creds, working_endpoints, device_cache, hist>>

----------------------------------------------------------------------------
(* get_device, get_temperatures, get_alerts, create_alert: lines 337-531   *)

DeviceIds == {"1", "2"}
ChannelIds == {"1"}
\* min_temp and max_temp as a caller may pass them: None, or a number (0 too)
Temps == {NoArg, Arg(0)}

RECURSIVE DerivedVersions(_)
\* the versions of the discovered devices_ entries, in cache order
DerivedVersions(we) ==
    IF we = <<>> THEN <<>>
    ELSE (IF StartsWithDevices_(Head(we).key) THEN <<Head(we).version>> ELSE <<>>)
            \o DerivedVersions(Tail(we))

RECURSIVE Flat(_)
Flat(ss) == IF ss = <<>> THEN <<>> ELSE Head(ss) \o Flat(Tail(ss))

\* lines 347-367
DeviceCandidates(we, id) ==
    LET vs == DerivedVersions(we)
    IN  Flat([i \in 1..Len(vs) |-> <<Info("devices/" \o id, vs[i])>>])
            \o <<Info("devices/" \o id, None), Info("devices/" \o id, "v1"),
                 Info("devices/" \o id, "v2"), Info("devices/" \o id, "drive"),
                 Info("device/" \o id, None)>>

\* lines 390-413; the last candidate carries the id as a query parameter
TemperatureCandidates(we, id) ==
    LET vs == DerivedVersions(we)
    IN  Flat([i \in 1..Len(vs) |->
                <<Info("devices/" \o id \o "/temps", vs[i]),
                  Info("devices/" \o id \o "/temperatures", vs[i])>>])
            \o <<Info("devices/" \o id \o "/temps", None),
                 Info("devices/" \o id \o "/temps", "v1"),
                 Info("devices/" \o id \o "/temperatures", None),
                 Info("device/" \o id \o "/temps", None),
                 Info("temps?device=" \o id, None)>>

\* lines 435-453
AlertCandidates(we, id) ==
    LET vs == DerivedVersions(we)
    IN  Flat([i \in 1..Len(vs) |-> <<Info("devices/" \o id \o "/alerts", vs[i])>>])
            \o <<Info("devices/" \o id \o "/alerts", None),
                 Info("devices/" \o id \o "/alerts", "v1"),
                 Info("device/" \o id \o "/alerts", None),
                 Info("alerts?device=" \o id, None)>>

\* lines 490-512
CreateCandidates(we, id) ==
    LET vs == DerivedVersions(we)
    IN  Flat([i \in 1..Len(vs) |->
                <<Info("alerts", vs[i]), Info("devices/" \o id \o "/alerts", vs[i])>>])
            \o <<Info("alerts", None), Info("alerts", "v1"),
                 Info("devices/" \o id \o "/alerts", None)>>

\* a key of the JSON body of a POST: absent, null or a number
NoBody == [device |-> "", channel |-> "", min_temp |-> Absent, max_temp |-> Absent]

\* an optional field that is sent as null when it was not provided
FieldNull(a) == IF a.p = "none" THEN [p |-> "null", v |-> 0] ELSE [p |-> "num", v |-> a.v]

\* lines 485-488: an optional field enters the body only when it is not None
Field(a) == IF a.p = "none" THEN Absent ELSE [p |-> "num", v |-> a.v]

\* lines 480-488
AlertBody(args) ==
    [device |-> args.device, channel |-> args.channel,
     min_temp |-> Field(args.min_temp), max_temp |-> Field(args.max_temp)]

\* self.device_cache: device_id in cache, cache[device_id], cache[device_id] = v
CacheHas(dc, id) == \E i \in 1..Len(dc) : dc[i].id = id
CacheGet(dc, id) == dc[CHOOSE i \in 1..Len(dc) : dc[i].id = id].value
\* a store that is lost
CachePutNothing(dc, id, v) == dc
\* a store that lands under the id the server's payload would name
CachePutElsewhere(dc, id, v) == Append(dc, [id |-> "0", value |-> v])
CachePut(dc, id, v) ==
    IF CacheHas(dc, id)
    THEN [i \in 1..Len(dc) |-> IF dc[i].id = id THEN [dc[i] EXCEPT !.value = v] ELSE dc[i]]
    ELSE Append(dc, [id |-> id, value |-> v])

\* one request of a device operation as `opcall.tried` keeps it
Try(info, body, result) ==
    [endpoint |-> info.endpoint, version |-> info.version, body |-> body,
     result |-> result]

\* the candidate loops, lines 369-383, 415-428, 455-468, 514-531: request the
\* next candidate and return its payload when it is not None; return None when
\* no candidate is left
Attempt(fn, method, body, store) ==
    /\ Running(fn, "loop")
    /\ LET f == Top
       IN  IF f.todo = <<>>
           THEN /\ Return(Returned(fn, "value", JNone, FALSE))
                /\ UNCHANGED <<token, headers, user_id, last, nreq, opcall, device_cache>>
           ELSE LET info == Head(f.todo)
                    q == Req(method, info.endpoint, info.version, TRUE)
                IN  \E R \in Oracles(ItemResponses(method)) :
                       LET o == ApiRequest(Self, q, R)
                       IN  /\ Adopt(o)
                           /\ user_id' = o.user_id
                           /\ last' = Exchange(fn, q, o, ~Falsy(token))
                           /\ opcall' = [opcall EXCEPT !.tried =
                                            Append(@, Try(info, body, o.result))]
                           /\ IF ~IsNone(o.result)
                              THEN /\ Return(Returned(fn, "value", o.result, FALSE))
                                   /\ device_cache' =
                                         IF store
                                         THEN CachePut(device_cache, opcall.args.device,
                                                       o.result)
                                         ELSE device_cache
                              ELSE /\ stack' = SetTop([f EXCEPT !.todo = Tail(f.todo)])
                                   /\ rv' = rv
                                   /\ device_cache' = device_cache
    /\ UNCHANGED <<host, io, tick, server, hass, status_sensor, creds, working_endpoints, hist>>

\* lines 339-367: the cached device at once, else the candidate list
CallGetDevice ==
    /\ \E id \in DeviceIds :
          /\ BeginOp("get_device", Args(id, "", NoArg, NoArg))
          /\ IF CacheHas(device_cache, id)
             THEN /\ stack' = <<>>
                  /\ rv' = Returned("get_device", "value", CacheGet(device_cache, id),
                                    FALSE)
             ELSE /\ stack' = <<[Frame("get_device", "loop", id) EXCEPT
                                    !.todo = DeviceCandidates(working_endpoints, id)]>>
                  /\ rv' = NoReturn
    /\ last' = NoExchange
    /\ nreq' = 0
    /\ UNCHANGED <<host, io, tick, server, hass, status_sensor, creds, token, headers, user_id,
                   working_endpoints, device_cache>>

GetDeviceStep == Attempt("get_device", "GET", NoBody, TRUE)

CallGetTemperatures ==
    /\ \E id \in DeviceIds :
          /\ BeginOp("get_temperatures", Args(id, "", NoArg, NoArg))
          /\ stack' = <<[Frame("get_temperatures", "loop", id) EXCEPT
                            !.todo = TemperatureCandidates(working_endpoints, id)]>>
    /\ last' = NoExchange
    /\ nreq' = 0
    /\ rv' = NoReturn
    /\ UNCHANGED <<host, io, tick, server, hass, status_sensor, creds, token, headers, user_id,
                   working_endpoints, device_cache>>

GetTemperaturesStep == Attempt("get_temperatures", "GET", NoBody, FALSE)

CallGetAlerts ==
    /\ \E id \in DeviceIds :
          /\ BeginOp("get_alerts", Args(id, "", NoArg, NoArg))
          /\ stack' = <<[Frame("get_alerts", "loop", id) EXCEPT
                            !.todo = AlertCandidates(working_endpoints, id)]>>
    /\ last' = NoExchange
    /\ nreq' = 0
    /\ rv' = NoReturn
    /\ UNCHANGED <<host, io, tick, server, hass, status_sensor, creds, token, headers, user_id,
                   working_endpoints, device_cache>>

GetAlertsStep == Attempt("get_alerts", "GET", NoBody, FALSE)

\* lines 470-512: build the body once, then the candidate list
CallCreateAlert ==
    /\ \E id \in DeviceIds, ch \in ChannelIds, mn \in Temps, mx \in Temps :
          LET args == Args(id, ch, mn, mx)
          IN  /\ BeginOp("create_alert", args)
              /\ stack' = <<[Frame("create_alert", "loop", AlertBody(args)) EXCEPT
                                !.todo = CreateCandidates(working_endpoints, id)]>>
    /\ last' = NoExchange
    /\ nreq' = 0
    /\ rv' = NoReturn
    /\ UNCHANGED <<host, io, tick, server, hass, status_sensor, creds, token, headers, user_id,
                   working_endpoints, device_cache>>

CreateAlertStep == Attempt("create_alert", "POST", Top.arg, FALSE)

\* a client as constructed, against the small deployment
OpsInit ==
    /\ creds \in BOOLEAN
    /\ token = None
    /\ headers = NoKey
    /\ user_id = None
    /\ working_endpoints = <<>>
    /\ device_cache = <<>>
    /\ stack = <<>>
    /\ last = NoExchange
    /\ rv = NoReturn
    /\ nreq = 0
    /\ hist = [op |-> "", cached0 |-> FALSE, prevGetDevices |-> FALSE,
               replaced |-> FALSE]
    /\ server = "small"
    /\ io = NoCall
    /\ opcall = NoOp
    /\ tick = NoTick
    /\ entry = NoEntry
    /\ flow = NoFlow
    /\ sensor = NoSensor
    /\ parked = <<>>
    /\ hass = NoHass
    /\ status_sensor = NoStatus

OpsNext ==
    \/ CallDiscover
    \/ DiscoverEnter
    \/ DiscoverProbe
    \/ CallGetDevice
    \/ GetDeviceStep
    \/ CallGetTemperatures
    \/ GetTemperaturesStep
    \/ CallGetAlerts
    \/ GetAlertsStep
    \/ CallCreateAlert
    \/ CreateAlertStep
    \/ CallDeleteAlert
    \/ DeleteAlertStep

OpsSpec == OpsInit /\ [][OpsNext]_vars

----------------------------------------------------------------------------
(* The poll tick: async_setup_entry and async_update_data, __init__.py     *)

\* data that starts from the snapshot of the previous tick
FreshDataMerged ==
    IF tick.out.kind = "snapshot"
    THEN [tick.out EXCEPT !.working_endpoints = [p |-> "dict", v |-> <<>>],
                          !.api_status = Missing]
    ELSE Snapshot("snapshot", JNone, <<>>, [p |-> "dict", v |-> <<>>], Missing, Missing)

\* lines 53-57
FreshData ==
    Snapshot("snapshot", JNone, <<>>, [p |-> "dict", v |-> <<>>], Missing, Missing)

\* lines 64-76: the profile and the devices it embeds enter the data
WithProfile(data, profile) ==
    IF Truthy(profile)
    THEN [data EXCEPT !.profile = profile,
                      !.devices = IF /\ profile.userprofile.p = "dict"
                                     /\ Has(profile.userprofile.devices)
                                  THEN profile.userprofile.devices.items
                                  ELSE <<>>]
    ELSE [data EXCEPT !.error = "Unable to retrieve user profile"]

\* line 96
ApiStatus(profile, devices) ==
    IF Truthy(profile) /\ devices # <<>> THEN "connected" ELSE "limited"

\* an except clause that lets the exception go
CaughtReraise(data) == [NoSnapshot EXCEPT !.kind = "raise"]

\* lines 99-111: the data gathered so far when it holds a profile, else an
\* all-empty dict; either one with the error text and without api_status
Caught(data) ==
    IF Truthy(data.profile)
    THEN [data EXCEPT !.error = "exception"]
    ELSE Snapshot("snapshot", JNone, <<>>, [p |-> "absent", v |-> <<>>],
                  "exception", Missing)

\* lines 84-98, after get_devices returned or raised
WithDevices(data, r) ==
    IF r.kind = "raise" THEN Caught(data)
    ELSE LET d == IF r.val.items # <<>>
                  THEN [data EXCEPT !.devices = r.val.items]
                  ELSE [data EXCEPT !.error = "No devices found"]
         IN  [d EXCEPT !.api_status = ApiStatus(data.profile, d.devices)]

\* lines 59-76: a tick begins with get_user_profile; the coordinator runs the
\* first one inside async_setup_entry (line 122), after authenticate (line 46),
\* and the later ones once the setup has returned True, one tick at a time
TickStart ==
    /\ Begin("get_user_profile")
    /\ entry.auth # "none"
    /\ \/ tick.pc = "none"
       \/ tick.pc \in {"done", "cancelled"} /\ entry.result = "true"
    /\ \E R \in Oracles(ProfileResponses) :
          LET o == GetUserProfile(Self, R)
          IN  /\ token' = o.token
              /\ headers' = o.headers
              /\ user_id' = o.user_id
              /\ nreq' = Len(o.trace)
              /\ last' = Exchange("get_user_profile",
                                  Req("GET", "rest-auth/user/", None, TRUE), o,
                                  ~Falsy(token))
              /\ rv' = Returned("get_user_profile", "value", o.result, FALSE)
              /\ tick' = [pc |-> "profile", data |-> WithProfile(FreshData, o.result),
                          out |-> tick.out, kept |-> tick.kept]
    /\ UNCHANGED <<host, io, server, hass, status_sensor, creds, working_endpoints, device_cache, stack>>

\* line 80: _discover_working_api_endpoints is called whatever the profile held
TickDiscover ==
    /\ Begin("discover")
    /\ tick.pc = "profile"
    /\ tick' = [tick EXCEPT !.pc = "discover"]
    /\ stack' = <<Frame("discover", "enter", "")>>
    /\ last' = NoExchange
    /\ nreq' = 0
    /\ rv' = NoReturn
    /\ UNCHANGED <<host, io, server, hass, status_sensor, creds, token, headers, user_id, working_endpoints,
                   device_cache>>

\* lines 81-98: keep the endpoints; return when the profile gave the devices,
\* else call get_devices
TickDiscovered ==
    /\ tick.pc = "discover"
    /\ LET data == [tick.data EXCEPT
                       !.working_endpoints = [p |-> "dict", v |-> working_endpoints]]
       IN  IF data.devices # <<>>
           THEN /\ Idle
                /\ tick' = [pc |-> "done", data |-> NoSnapshot,
                            out |-> [data EXCEPT !.api_status =
                                        ApiStatus(data.profile, data.devices)],
                            kept |-> NoKept]
                /\ UNCHANGED <<stack, last, nreq, rv, hist, opcall>>
           ELSE /\ Begin("get_devices")
                /\ tick' = [tick EXCEPT !.pc = "devices", !.data = data]
                /\ stack' = <<Frame("get_devices", "start", "")>>
                /\ last' = NoExchange
                /\ nreq' = 0
                /\ rv' = NoReturn
    /\ UNCHANGED <<host, io, server, hass, status_sensor, creds, token, headers, user_id, working_endpoints,
                   device_cache>>

\* lines 88-111: get_devices returned a list or raised
TickDevices ==
    /\ Idle
    /\ tick.pc = "devices"
    /\ tick' = [pc |-> "done", data |-> NoSnapshot, out |-> WithDevices(tick.data, rv),
                kept |-> NoKept]
    /\ UNCHANGED <<host, io, server, hass, status_sensor, creds, token, headers, user_id, working_endpoints,
                   device_cache, stack, last, nreq, rv, hist, opcall>>

\* a setup that gives up when authenticate() failed
SetupResultFatal(authentication_success) == authentication_success

\* lines 46-49 and 142: a failed authenticate() is logged and the setup goes
\* on; async_setup_entry returns True whatever authenticate() returned
SetupResult(authentication_success) == TRUE

\* lines 43-49: async_setup_entry constructs the client and awaits authenticate()
SetupAuthenticate ==
    /\ Begin("authenticate")
    /\ entry.auth = "none"
    /\ \E l \in LoginResponses, p \in ProfileResponses :
          LET a == Authenticate(Self, Oracle(l, p, p))
          IN  /\ token' = a.token
              /\ headers' = a.headers
              /\ user_id' = a.user_id
              /\ nreq' = Len(a.trace)
              /\ rv' = Returned("authenticate", "bool", JNone, a.ok)
              /\ entry' = [entry EXCEPT !.auth = IF a.ok THEN "ok" ELSE "failed"]
    /\ last' = NoExchange
    /\ UNCHANGED <<flow, sensor, parked, io, tick, server, hass, status_sensor, creds, working_endpoints,
                   device_cache, stack>>

\* lines 122-142: the first refresh is over; the coordinator and the client are
\* stored in hass.data, the platforms are set up and the setup returns
SetupFinish ==
    /\ Idle
    /\ tick.pc = "done"
    /\ entry.result = "none"
    /\ LET r == SetupResult(entry.auth = "ok")
       IN  entry' = [entry EXCEPT !.result = IF r THEN "true" ELSE "false",
                                  !.registered = r]
    /\ UNCHANGED <<flow, sensor, parked, io, tick, server, hass, status_sensor, creds, token, headers,
                   user_id, working_endpoints, device_cache, stack, last, rv, nreq,
                   hist, opcall>>

\* the cache as a cancelled call leaves it
CancelledCacheDropped(we) == <<>>

\* api.py lines 239-246: the sweep writes each accepted entry into
\* self.working_endpoints as it goes, so a call abandoned at one of its
\* requests leaves the dict as it is
CancelledCache(we) == we

\* the host cancels a scheduled poll at one of its requests: the call frames
\* are dropped, the coordinator keeps its snapshot and the client its fields
TickCancel ==
    /\ ~Idle
    /\ tick.pc \in {"discover", "devices"}
    /\ entry.result = "true"
    /\ stack' = <<>>
    /\ working_endpoints' = CancelledCache(working_endpoints)
    /\ tick' = [tick EXCEPT !.pc = "cancelled", !.data = NoSnapshot,
                            !.kept = [p |-> "dict", v |-> working_endpoints,
                                      sweep |-> Running("discover", "sweep")]]
    /\ last' = NoExchange
    /\ rv' = NoReturn
    /\ nreq' = 0
    /\ UNCHANGED <<host, io, server, hass, status_sensor, creds, token, headers, user_id, device_cache,
                   hist, opcall>>

\* the client async_setup_entry constructs (line 43), against the small
\* deployment
TickInit ==
    /\ creds \in BOOLEAN
    /\ token = None
    /\ headers = NoKey
    /\ user_id = None
    /\ working_endpoints = <<>>
    /\ device_cache = <<>>
    /\ stack = <<>>
    /\ last = NoExchange
    /\ rv = NoReturn
    /\ nreq = 0
    /\ hist = [op |-> "", cached0 |-> FALSE, prevGetDevices |-> FALSE,
               replaced |-> FALSE]
    /\ server = "small"
    /\ io = NoCall
    /\ opcall = NoOp
    /\ tick = NoTick
    /\ entry = NoEntry
    /\ flow = NoFlow
    /\ sensor = NoSensor
    /\ parked = <<>>
    /\ hass = NoHass
    /\ status_sensor = NoStatus

TickNext ==
    \/ SetupAuthenticate
    \/ SetupFinish
    \/ TickCancel
    \/ TickStart
    \/ TickDiscover
    \/ DiscoverEnter
    \/ DiscoverProbe
    \/ TickDiscovered
    \/ GetDevicesStart
    \/ GetDevicesCached
    \/ GetDevicesFallback
    \/ TickDevices

TickSpec == TickInit /\ [][TickNext]_vars

----------------------------------------------------------------------------
(* The config flow: validate_input and async_step_user, config_flow.py     *)

\* the longest username the form is given
MaxName == 6

Chars == {"a", "@", "."}
RECURSIVE Strings(_)
Strings(n) ==
    IF n = 0 THEN {<<>>}
    ELSE LET S == Strings(n - 1)
         IN  S \cup {Append(t, c) : t \in {u \in S : Len(u) = n - 1}, c \in Chars}
Usernames == Strings(MaxName)
Passwords == {"", "pw"}

\* line 18 and line 35: EMAIL_REGEX.match(username), the pattern
\* [^@]+@[^@]+\.[^@]+ matched at the start of the string, anything after it
EMAIL_REGEX(username) ==
    \E a \in 2..Len(username), d \in 4..Len(username) - 1 :
        /\ username[a] = "@"
        /\ \A k \in 1..(a - 1) : username[k] # "@"
        /\ d > a + 1
        /\ username[d] = "."
        /\ \A k \in (a + 1)..(d - 1) : username[k] # "@"
        /\ username[d + 1] # "@"

\* a form that answers every failure with the same code
FormErrorUnknown(exc) == "unknown"

\* lines 90-98: the except clauses of async_step_user
FormError(exc) ==
    IF exc = "CannotConnect" THEN "cannot_connect"
    ELSE IF exc = "InvalidAuth" THEN "invalid_auth"
    ELSE "unknown"

\* lines 100-101: the form is shown again with the error
ShowForm(f, exc) == [f EXCEPT !.pc = "form", !.errors = FormError(exc)]

\* line 84 with user_input None: the empty form is shown
FlowOpen ==
    /\ flow.pc = "none"
    /\ flow' = [flow EXCEPT !.pc = "form"]
    /\ UNCHANGED <<entry, sensor, parked, io, tick, server, hass, status_sensor, creds, token, headers,
                   user_id, working_endpoints, device_cache, stack, last, rv, nreq,
                   hist, opcall>>

\* lines 30-45: the username check, then a new client and authenticate()
FlowSubmit ==
    /\ flow.pc = "form"
    /\ Begin("authenticate")
    /\ last' = NoExchange
    /\ rv' = NoReturn
    /\ \E username \in Usernames, password \in Passwords :
          LET f == [flow EXCEPT !.email = EMAIL_REGEX(username), !.login = FALSE,
                                !.profile = FALSE, !.sent = 0]
          IN  IF ~EMAIL_REGEX(username)
              THEN /\ flow' = ShowForm(f, "InvalidAuth")
                   /\ nreq' = 0
                   /\ UNCHANGED <<creds, token, headers, user_id, working_endpoints,
                                  device_cache>>
              ELSE \E l \in LoginResponses, p \in ProfileResponses :
                      LET c == [creds |-> username # <<>> /\ password # "",
                                token |-> None, headers |-> NoKey, user_id |-> None,
                                depth |-> 0]
                          a == Authenticate(c, Oracle(l, p, p))
                          g == [f EXCEPT !.login = a.ok, !.sent = Len(a.trace)]
                      IN  /\ creds' = c.creds
                          /\ token' = a.token
                          /\ headers' = a.headers
                          /\ user_id' = a.user_id
                          /\ working_endpoints' = <<>>
                          /\ device_cache' = <<>>
                          /\ nreq' = Len(a.trace)
                          /\ flow' = IF a.ok THEN [g EXCEPT !.pc = "profile", !.errors = ""]
                                     ELSE ShowForm(g, "InvalidAuth")
    /\ UNCHANGED <<entry, sensor, parked, io, tick, server, hass, status_sensor, stack>>

\* lines 47-58: get_user_profile(); without a profile CannotConnect, else
\* get_devices() is called
FlowProfile ==
    /\ flow.pc = "profile"
    /\ Begin("get_devices")
    /\ \E R \in Oracles(ProfileResponses) :
          LET o == GetUserProfile(Self, R)
              f == [flow EXCEPT !.profile = Truthy(o.result),
                                !.sent = flow.sent + Len(o.trace)]
          IN  /\ token' = o.token
              /\ headers' = o.headers
              /\ user_id' = o.user_id
              /\ nreq' = 0
              /\ last' = Exchange("get_user_profile",
                                  Req("GET", "rest-auth/user/", None, TRUE), o,
                                  ~Falsy(token))
              /\ rv' = NoReturn
              /\ IF Truthy(o.result)
                 THEN /\ flow' = [f EXCEPT !.pc = "devices"]
                      /\ stack' = <<Frame("get_devices", "start", "")>>
                 ELSE /\ flow' = ShowForm(f, "CannotConnect")
                      /\ stack' = stack
    /\ UNCHANGED <<entry, sensor, parked, io, tick, server, hass, status_sensor, creds, working_endpoints,
                   device_cache>>

\* lines 58-72 and 86-89: get_devices() returned or raised; any list, the empty
\* one too, lets the entry be created
FlowDevices ==
    /\ Idle
    /\ flow.pc = "devices"
    /\ flow' = IF rv.kind = "raise" THEN ShowForm(flow, "TypeError")
               ELSE [flow EXCEPT !.pc = "created", !.created = TRUE]
    /\ UNCHANGED <<entry, sensor, parked, io, tick, server, hass, status_sensor, creds, token, headers,
                   user_id, working_endpoints, device_cache, stack, last, rv, nreq,
                   hist, opcall>>

\* the flow as Home Assistant opens it, against the small deployment
FlowInit ==
    /\ creds = FALSE
    /\ token = None
    /\ headers = NoKey
    /\ user_id = None
    /\ working_endpoints = <<>>
    /\ device_cache = <<>>
    /\ stack = <<>>
    /\ last = NoExchange
    /\ rv = NoReturn
    /\ nreq = 0
    /\ hist = [op |-> "", cached0 |-> FALSE, prevGetDevices |-> FALSE,
               replaced |-> FALSE]
    /\ server = "small"
    /\ io = NoCall
    /\ opcall = NoOp
    /\ tick = NoTick
    /\ entry = NoEntry
    /\ flow = NoFlow
    /\ sensor = NoSensor
    /\ parked = <<>>
    /\ hass = NoHass
    /\ status_sensor = NoStatus

FlowNext ==
    \/ FlowOpen
    \/ FlowSubmit
    \/ FlowProfile
    \/ GetDevicesStart
    \/ DiscoverEnter
    \/ DiscoverProbe
    \/ GetDevicesCached
    \/ GetDevicesFallback
    \/ FlowDevices

FlowSpec == FlowInit /\ [][FlowNext]_vars

----------------------------------------------------------------------------
(* The temperature sensor entity, sensor.py lines 440-522                  *)

\* the unit strings a channel may carry ("deg" is the degree sign);
\* temperatures are in tenths of a degree
UnitStrings == {<<>>, <<"deg", "F">>, <<"deg", "c">>, <<"K">>}
Units ==
    {[p |-> "absent", v |-> <<>>], [p |-> "null", v |-> <<>>]}
        \cup {[p |-> "str", v |-> u] : u \in UnitStrings}

\* the channel objects a snapshot may hold for the entity's device and channel
Channels ==
    [found : {TRUE}, channels : {"list"}, temp : {Absent, Null, Num(700)},
     temperature : {Absent, Num(710)},
     current_temp : {Absent, Null, Num(725)}, value : {Absent, Num(0)}, unit : Units]

\* str.upper() on the characters unit strings are made of
Upper(u) ==
    [i \in DOMAIN u |-> IF u[i] = "f" THEN "F" ELSE IF u[i] = "c" THEN "C" ELSE u[i]]

\* "F" in unit
Contains(u, ch) == \E i \in DOMAIN u : u[i] = ch

\* a field counts as soon as the channel has the key
FieldUsablePresent(slot) == slot.p # "absent"

\* line 480: field in channel and channel[field] is not None
FieldUsable(slot) == slot.p = "num"

\* lines 478-482: temp_field_names in order; the first usable field is the state
Temperature(channel, state) ==
    IF FieldUsable(channel.temp) THEN channel.temp
    ELSE IF FieldUsable(channel.temperature) THEN channel.temperature
    ELSE IF FieldUsable(channel.current_temp) THEN channel.current_temp
    ELSE IF FieldUsable(channel.value) THEN channel.value
    ELSE state

\* lines 505-509: "F" is looked for first, then "C"; with neither the attribute
\* _unit keeps the value it had
UnitOf(unit, held) ==
    LET u == Upper(IF unit.p = "absent" THEN <<>> ELSE unit.v)
    IN  IF Contains(u, "F") THEN "F"
        ELSE IF Contains(u, "C") THEN "C"
        ELSE held

\* the coordinator holds a new snapshot: the entity's channel as it is there, or
\* no such channel
CoordinatorUpdate ==
    /\ \E c \in Channels \cup {NoChannel, NullChannels} :
          sensor' = [sensor EXCEPT !.channel = c, !.read = "", !.raised = FALSE]
    /\ UNCHANGED <<entry, flow, parked, io, tick, server, hass, status_sensor, creds, token, headers,
                   user_id, working_endpoints, device_cache, stack, last, rv, nreq,
                   hist, opcall>>

\* lines 470-495: the property state; "channels": null makes the loop of line
\* 476 raise TypeError (device.get("channels", []) is None)
ReadState ==
    /\ IF sensor.channel.channels = "null"
       THEN sensor' = [sensor EXCEPT !.read = "state", !.raised = TRUE]
       ELSE LET st == IF sensor.channel.found
                      THEN Temperature(sensor.channel, sensor.state)
                      ELSE sensor.state
            IN  sensor' = [sensor EXCEPT !.state = st, !.ret = st, !.read = "state",
                                         !.raised = FALSE]
    /\ UNCHANGED <<entry, flow, parked, io, tick, server, hass, status_sensor, creds, token, headers,
                   user_id, working_endpoints, device_cache, stack, last, rv, nreq,
                   hist, opcall>>

\* lines 497-512: the property unit_of_measurement; a unit that is null has no
\* upper() and the property raises AttributeError
ReadUnit ==
    /\ IF \/ sensor.channel.channels = "null"
          \/ sensor.channel.found /\ sensor.channel.unit.p = "null"
       THEN sensor' = [sensor EXCEPT !.read = "unit", !.raised = TRUE]
       ELSE LET u == IF sensor.channel.found
                     THEN UnitOf(sensor.channel.unit, sensor.unit) ELSE sensor.unit
            IN  sensor' = [sensor EXCEPT !.unit = u, !.uret = u, !.read = "unit",
                                         !.raised = FALSE]
    /\ UNCHANGED <<entry, flow, parked, io, tick, server, hass, status_sensor, creds, token, headers,
                   user_id, working_endpoints, device_cache, stack, last, rv, nreq,
                   hist, opcall>>

\* the entity as sensor.py constructs it; no client call is made here
SensorInit ==
    /\ creds = TRUE
    /\ token = None
    /\ headers = NoKey
    /\ user_id = None
    /\ working_endpoints = <<>>
    /\ device_cache = <<>>
    /\ stack = <<>>
    /\ last = NoExchange
    /\ rv = NoReturn
    /\ nreq = 0
    /\ hist = [op |-> "", cached0 |-> FALSE, prevGetDevices |-> FALSE,
               replaced |-> FALSE]
    /\ server = "small"
    /\ io = NoCall
    /\ opcall = NoOp
    /\ tick = NoTick
    /\ entry = NoEntry
    /\ flow = NoFlow
    /\ sensor = NoSensor
    /\ parked = <<>>
    /\ hass = NoHass
    /\ status_sensor = NoStatus

SensorNext ==
    \/ CoordinatorUpdate
    \/ ReadState
    \/ ReadUnit

SensorSpec == SensorInit /\ [][SensorNext]_vars

----------------------------------------------------------------------------
(* Two calls on one client: a refresh asked for by the refresh_data service *)
(* (service.py lines 99-106) while a scheduled poll is running             *)

\* the running task is suspended at its request and the other task goes on,
\* or begins; asyncio switches tasks only at an await, and every step of a call
\* here ends at one
Switch ==
    /\ stack # <<>> \/ parked # <<>>
    /\ stack' = parked
    /\ parked' = stack
    /\ UNCHANGED <<entry, flow, sensor, io, tick, server, hass, status_sensor, creds, token, headers,
                   user_id, working_endpoints, device_cache, last, rv, nreq, hist,
                   opcall>>

\* __init__.py line 80: the scheduled poll calls discovery on a client whose
\* cache is still empty, while no other call is under way
PollDiscover ==
    /\ parked = <<>>
    /\ hass = NoHass
    /\ status_sensor = NoStatus
    /\ working_endpoints = <<>>
    /\ CallDiscover

\* service.py lines 104-106, __init__.py line 88: the refresh the service asked
\* for reaches get_devices while the poll is suspended at one of its requests;
\* one refresh for each poll, begun when the sweep has cached an entry
RefreshGetDevices ==
    /\ parked # <<>>
    /\ hist.op = "discover"
    /\ working_endpoints # <<>>
    /\ CallGetDevices

\* a client that holds a token, against the small deployment
ConcInit ==
    /\ creds = TRUE
    /\ token \in Keys
    /\ headers = token
    /\ user_id = None
    /\ working_endpoints = <<>>
    /\ device_cache = <<>>
    /\ stack = <<>>
    /\ last = NoExchange
    /\ rv = NoReturn
    /\ nreq = 0
    /\ hist = [op |-> "", cached0 |-> FALSE, prevGetDevices |-> FALSE,
               replaced |-> FALSE]
    /\ server = "small"
    /\ io = NoCall
    /\ opcall = NoOp
    /\ tick = NoTick
    /\ entry = NoEntry
    /\ flow = NoFlow
    /\ sensor = NoSensor
    /\ parked = <<>>
    /\ hass = NoHass
    /\ status_sensor = NoStatus

ConcNext ==
    \/ PollDiscover
    \/ DiscoverEnter
    \/ DiscoverProbe
    \/ RefreshGetDevices
    \/ GetDevicesStart
    \/ GetDevicesCached
    \/ GetDevicesFallback
    \/ Switch

ConcSpec == ConcInit /\ [][ConcNext]_vars

----------------------------------------------------------------------------
(* authenticate and _api_request applied to every input                    *)

\* every login outcome: 200 with or without a key, another status with or
\* without a key in its body, a transport failure or timeout (st = 0)
RawLogins ==
    {[st |-> s, key |-> k] : s \in {200, 201, 400}, k \in Keys \cup {NoKey}}
        \cup {NoLogin}

RawBodies == {JNone, JDict(SAbsent, SAbsent, None, NoUserprofile, TRUE)}

\* every outcome of a request: a status with a JSON body or with a body that is
\* not JSON (JNone), a transport failure or timeout (st = 0)
RawResponses ==
    {Resp(s, b) : s \in {200, 201, 401, 404}, b \in RawBodies}
        \cup {NoResp}

RawProfiles ==
    {NoResp, Resp(200, JDict(SAbsent, SAbsent, "5", NoUserprofile, FALSE))}

\* a login answered 200 with a key that is empty: {"key": ""}
EmptyKeyLogin == [st |-> 200, key |-> ""]

\* the login outcomes of the server at hand
ServerLogins ==
    IF server = "emptykey"
    THEN {EmptyKeyLogin, [st |-> 200, key |-> "abc"], [st |-> 400, key |-> NoKey]}
    ELSE RawLogins

RawOracles ==
    IF Falsy(token) /\ creds
    THEN {Oracle(l, p, r) : l \in ServerLogins, p \in RawProfiles, r \in RawResponses}
    ELSE {Oracle(NoLogin, NoResp, r) : r \in RawResponses}

\* authenticate() called directly
ApplyAuthenticate ==
    /\ \E l \in ServerLogins, p \in RawProfiles :
          LET a == Authenticate(Self, Oracle(l, p, p))
          IN  /\ token' = a.token
              /\ headers' = a.headers
              /\ user_id' = a.user_id
              /\ io' = [NoCall EXCEPT !.fn = "authenticate", !.creds = creds,
                                      !.held = ~Falsy(token), !.login = l,
                                      !.ok = a.ok, !.logins = a.logins]
    /\ last' = NoExchange
    /\ UNCHANGED <<creds, working_endpoints, device_cache, stack, rv, nreq,
                   hist, server, hass, status_sensor, opcall, tick, entry, flow, sensor,
                   parked>>

\* _api_request called directly with any method and either raise_for_status
ApplyApiRequest ==
    /\ \E method \in Methods \cup {"PATCH"}, rfs \in BOOLEAN, R \in RawOracles :
          LET q == Req(method, "devices", None, rfs)
              o == ApiRequest(Self, q, R)
          IN  /\ last' = Exchange("_api_request", q, o, ~Falsy(token))
              /\ token' = o.token
              /\ headers' = o.headers
              /\ user_id' = o.user_id
              /\ io' = [NoCall EXCEPT !.fn = "_api_request", !.creds = creds,
                                      !.held = ~Falsy(token), !.method = method,
                                      !.rfs = rfs, !.login = R.login,
                                      !.resp = R.resp, !.ok = ~Falsy(o.token),
                                      !.result = o.result, !.status = o.status,
                                      !.sends = o.sends, !.logins = o.logins]
    /\ UNCHANGED <<creds, working_endpoints, device_cache, stack, rv, nreq,
                   hist, server, hass, status_sensor, opcall, tick, entry, flow, sensor,
                   parked>>

\* a client as constructed, lines 14-43
FnInit ==
    /\ creds \in BOOLEAN
    /\ token = None
    /\ headers = NoKey
    /\ user_id = None
    /\ working_endpoints = <<>>
    /\ device_cache = <<>>
    /\ stack = <<>>
    /\ last = NoExchange
    /\ rv = NoReturn
    /\ nreq = 0
    /\ hist = [op |-> "", cached0 |-> FALSE, prevGetDevices |-> FALSE,
               replaced |-> FALSE]
    /\ server = "any"
    /\ io = NoCall
    /\ opcall = NoOp
    /\ tick = NoTick
    /\ entry = NoEntry
    /\ flow = NoFlow
    /\ sensor = NoSensor
    /\ parked = <<>>
    /\ hass = NoHass
    /\ status_sensor = NoStatus

FnNext == ApplyAuthenticate \/ ApplyApiRequest

FnSpec == FnInit /\ [][FnNext]_vars

\* the same client against a server whose login may answer with an empty key
EmptyKeyInit ==
    /\ creds \in BOOLEAN
    /\ token = None
    /\ headers = NoKey
    /\ user_id = None
    /\ working_endpoints = <<>>
    /\ device_cache = <<>>
    /\ stack = <<>>
    /\ last = NoExchange
    /\ rv = NoReturn
    /\ nreq = 0
    /\ hist = [op |-> "", cached0 |-> FALSE, prevGetDevices |-> FALSE,
               replaced |-> FALSE]
    /\ server = "emptykey"
    /\ io = NoCall
    /\ opcall = NoOp
    /\ tick = NoTick
    /\ entry = NoEntry
    /\ flow = NoFlow
    /\ sensor = NoSensor
    /\ parked = <<>>
    /\ hass = NoHass
    /\ status_sensor = NoStatus

EmptyKeySpec == EmptyKeyInit /\ [][FnNext]_vars

----------------------------------------------------------------------------
(* The poll tick, __init__.py lines 51-111                                 *)

----------------------------------------------------------------------------
(* The client from construction on                                         *)

\* __init__, lines 14-43
Init ==
    /\ creds \in BOOLEAN
    /\ token = None
    /\ headers = NoKey
    /\ user_id = None
    /\ working_endpoints = <<>>
    /\ device_cache = <<>>
    /\ stack = <<>>
    /\ last = NoExchange
    /\ rv = NoReturn
    /\ nreq = 0
    /\ hist = [op |-> "", cached0 |-> FALSE, prevGetDevices |-> FALSE,
               replaced |-> FALSE]
    /\ server \in {"any", "scenario7"}
    /\ io = NoCall
    /\ opcall = NoOp
    /\ tick = NoTick
    /\ entry = NoEntry
    /\ flow = NoFlow
    /\ sensor = NoSensor
    /\ parked = <<>>
    /\ hass = NoHass
    /\ status_sensor = NoStatus

Next ==
    \/ CallAuthenticate
    \/ CallGetUserProfile
    \/ CallDiscover
    \/ DiscoverEnter
    \/ DiscoverProbe
    \/ CallGetDevices
    \/ GetDevicesStart
    \/ GetDevicesCached
    \/ GetDevicesFallback
    \/ CallDeleteAlert
    \/ DeleteAlertStep

Spec == Init /\ [][Next]_vars

----------------------------------------------------------------------------
(* Properties                                                              *)

Sweeping == \E i \in 1..Len(stack) : stack[i].fn = "discover" /\ stack[i].pc = "sweep"
ProbeStep == Running("discover", "sweep")
ProbedKey == KeyFor(last'.version)
SecondGetDevices == hist.op = "get_devices" /\ hist.prevGetDevices /\ hist.cached0

\* C1: a request that held a token and ends with status 401 has performed
\* exactly one re-authentication (one login POST) and sent the request twice.
C1_ReauthAndRetryOnce ==
    (last.by # "" /\ last.held /\ last.status = 401)
        => (last.logins = 1 /\ last.sends = 2)

\* C2: a request of a client with credentials issued while no token is held
\* makes exactly one login POST, first; the request itself is sent exactly when
\* the login yields a key, after the login, carrying that key as authorization.
C2_LazyAuthentication ==
    (last.by # "" /\ creds /\ ~last.held)
        => /\ last.logins = 1
           /\ Head(last.trace) = "rest-auth/login/"
           /\ last.sends = 1 <=> ~Falsy(token)
           /\ last.sends = 1 =>
                 /\ last.authSent = token
                 /\ last.trace = <<"rest-auth/login/", "rest-auth/user/", last.endpoint>>
           /\ last.sends = 0 => last.status = 401 /\ last.trace = <<"rest-auth/login/">>

C2_Witness ==
    /\ last.by = "discover" /\ creds /\ ~last.held
    /\ last.endpoint = "devices" /\ last.sends = 1 /\ last.authSent = "abc"

\* C3 as stated: a get_devices call that directly follows a get_devices call and
\* begins with the cache populated issues at most one network request.
C3_AtMostOneRequest == SecondGetDevices => nreq <= 1

\* C3 amended: such a call never runs the discovery sweep and leaves the cache
\* as it is; it sends the profile request and then only requests to cached
\* devices_ entries and to the fixed fallback list.
C3_NoProbeOnSecondCall ==
    SecondGetDevices =>
        /\ ~Sweeping
        /\ working_endpoints # <<>>
        /\ nreq <= 1 + Cardinality(DeviceEntries(working_endpoints, 1)) + 7
        /\ last.by \in {"", "get_user_profile", "get_devices"}

C3_Witness ==
    /\ SecondGetDevices /\ Idle /\ rv.kind = "value" /\ rv.val.items # <<>>
    /\ last.by = "get_devices" /\ nreq = 2

\* C4: when a candidate endpoint of get_devices (discovered or fallback) answers
\* 200 with a bare list L, {"devices": L} or {"results": L}, get_devices returns L.
C4_UnwrapsAllShapes ==
    (last.by = "get_devices" /\ last.status = 200)
        => /\ IsList(last.result)
                => Idle /\ rv.kind = "value" /\ rv.val = last.result
           /\ (IsDict(last.result) /\ last.result.devices.p = "list")
                => Idle /\ rv.kind = "value" /\ rv.val = JList(last.result.devices.items)
           /\ (IsDict(last.result) /\ last.result.results.p = "list")
                => Idle /\ rv.kind = "value" /\ rv.val = JList(last.result.results.items)

\* C5: whenever get_devices ends, it has returned a list.
C5_AlwaysAList ==
    (Idle /\ hist.op = "get_devices") => (rv.kind = "value" /\ IsList(rv.val))

\* C6: with unversioned devices answering 404 and v1/devices answering 200 with a
\* non-empty list (nothing else served, no list in the profile), get_devices
\* returns that list with v1/devices cached under devices_v1, and a repeated
\* call sends the profile request and the cached v1 request only: no sweep and
\* no request to the unversioned devices endpoint.
C6_Scenario7 ==
    (server = "scenario7" /\ creds) =>
        /\ (Idle /\ hist.op = "get_devices") =>
              /\ rv.kind = "value" /\ rv.val = last.result
              /\ IsList(rv.val) /\ rv.val.items # <<>>
              /\ last.by = "get_devices"
              /\ last.endpoint = "devices" /\ last.version = "v1"
              /\ Len(working_endpoints) = 1
              /\ working_endpoints[1].key = <<"devices_", "v1">>
              /\ working_endpoints[1].endpoint = "devices"
              /\ working_endpoints[1].version = "v1"
        /\ (hist.op = "get_devices" /\ hist.prevGetDevices) =>
              /\ ~(last.endpoint = "devices" /\ last.version = None)
              /\ ~Sweeping
              /\ nreq <= 2

C6_Witness ==
    /\ server = "scenario7" /\ creds /\ Idle
    /\ hist.op = "get_devices" /\ hist.prevGetDevices
    /\ rv.val = JList(<<Device(1)>>) /\ nreq = 2

C7_Success(status) == status \in {200, 204}

\* C7: delete_alert sends the DELETE to its candidates in order; it returns True
\* at the first candidate answering 200 or 204 and tries no further one; it
\* returns False when the candidates are exhausted, none having answered 200 or
\* 204; it never raises.
C7_DeleteAlert ==
    /\ []((Idle /\ hist.op = "delete_alert") =>
            /\ rv.kind = "bool"
            /\ rv.ok <=> (last.by = "delete_alert" /\ C7_Success(last.status)))
    /\ [][Running("delete_alert", "loop") =>
            IF Top.todo = <<>>
            THEN Idle' /\ rv'.kind = "bool" /\ ~rv'.ok /\ last' = last
            ELSE /\ last'.method = "DELETE"
                 /\ last'.endpoint = Head(Top.todo).endpoint
                 /\ last'.version = Head(Top.todo).version
                 /\ IF C7_Success(last'.status)
                    THEN Idle' /\ rv'.kind = "bool" /\ rv'.ok
                    ELSE ~Idle' /\ Top'.todo = Tail(Top.todo)]_vars

\* every candidate was sent and answered 404
C7_Witness ==
    /\ Idle /\ hist.op = "delete_alert" /\ rv.kind = "bool" /\ ~rv.ok
    /\ last.status = 404 /\ last.sends = 1
    /\ working_endpoints # <<>>
    /\ nreq = Cardinality(DeviceEntries(working_endpoints, 1)) + 2

C8_Recorded ==
    \E i \in 1..Len(working_endpoints') :
          /\ working_endpoints'[i].key = ProbedKey
          /\ working_endpoints'[i].endpoint = last'.endpoint
          /\ working_endpoints'[i].version = last'.version

C8_NonEmpty(b) ==
    \/ b.k = "list" /\ b.items # <<>>
    \/ b.k = "dict" /\ (b.devices.p # "absent" \/ b.results.p # "absent" \/ b.other)

\* C8 as stated: a probed candidate is recorded iff its status is 200 and its
\* payload is a non-empty dict or a non-empty list.
C8_RecordedIffNonEmpty ==
    [][ProbeStep => (C8_Recorded <=> (last'.status = 200 /\ C8_NonEmpty(last'.result)))]_vars

\* C8 amended: a probed candidate is recorded iff its status is 200 and its
\* payload is a list (empty or not) or a non-empty dict.
C8_RecordedIffListOrNonEmptyDict ==
    [][ProbeStep =>
          (C8_Recorded <=>
              (last'.status = 200
                  /\ (last'.result.k = "list" \/ C8_NonEmpty(last'.result))))]_vars

C8_Witness ==
    /\ Sweeping /\ last.by = "discover" /\ last.status = 200
    /\ last.result = JList(<<>>)
    /\ \E i \in 1..Len(working_endpoints) :
          /\ working_endpoints[i].endpoint = last.endpoint
          /\ working_endpoints[i].version = last.version

C9_EntryOf(we, key) == CHOOSE i \in 1..Len(we) : we[i].key = key
C9_Present(we, key) == \E i \in 1..Len(we) : we[i].key = key

\* C9 as stated: once a key has an entry, a later probe of the sweep does not
\* replace it.
C9_FirstAcceptedKept ==
    [][(ProbeStep /\ C9_Present(working_endpoints, ProbedKey)) =>
          working_endpoints'[C9_EntryOf(working_endpoints', ProbedKey)]
              = working_endpoints[C9_EntryOf(working_endpoints, ProbedKey)]]_vars

\* C9 amended: the entry of a key holds the last accepted candidate: an accepted
\* probe puts its candidate under the key, replacing in place what the key held,
\* and a probe that is not accepted leaves the cache as it is.
C9_LastAcceptedKept ==
    [][ProbeStep =>
          IF last'.status = 200
                /\ (last'.result.k = "list" \/ C8_NonEmpty(last'.result))
          THEN /\ C9_Present(working_endpoints', ProbedKey)
               /\ working_endpoints'[C9_EntryOf(working_endpoints', ProbedKey)].endpoint
                     = last'.endpoint
               /\ C9_Present(working_endpoints, ProbedKey) =>
                     /\ Len(working_endpoints') = Len(working_endpoints)
                     /\ C9_EntryOf(working_endpoints', ProbedKey)
                           = C9_EntryOf(working_endpoints, ProbedKey)
          ELSE working_endpoints' = working_endpoints]_vars

\* v1/devices was accepted, then v1/device/list replaced it
C9_Witness ==
    /\ hist.replaced /\ last.by = "discover"
    /\ last.version = "v1" /\ last.endpoint = "device/list"
    /\ working_endpoints[1].key = <<"devices_", "v1">>
    /\ working_endpoints[1].endpoint = "device/list"

\* C10: discovery entered with a populated cache returns at once, the cache
\* unchanged and nothing requested; no step removes a key from the cache, and
\* only a probe of a sweep changes the cache at all.
C10_CacheKept ==
    /\ [][(Running("discover", "enter") /\ working_endpoints # <<>>) =>
             /\ working_endpoints' = working_endpoints
             /\ nreq' = nreq /\ last' = last
             /\ stack' = Front(stack)]_vars
    /\ [][\A i \in 1..Len(working_endpoints) :
             /\ i <= Len(working_endpoints')
             /\ working_endpoints'[i].key = working_endpoints[i].key]_vars
    /\ [][~ProbeStep => working_endpoints' = working_endpoints]_vars

C10_Witness ==
    /\ Idle /\ hist.op = "discover" /\ hist.cached0
    /\ rv.kind = "endpoints" /\ nreq = 0
    /\ Len(working_endpoints) >= 2

----------------------------------------------------------------------------
(* get_devices: the profile shortcut and the cached loop                   *)

\* a payload that carries a non-empty list under userprofile.devices
EmbedsDevices(b) ==
    /\ IsDict(b)
    /\ b.userprofile.p = "dict"
    /\ b.userprofile.devices.p = "list"
    /\ b.userprofile.devices.items # <<>>

AuthPaths == {"rest-auth/login/", "rest-auth/user/"}

\* C11: when the profile fetched by get_devices embeds a non-empty device list,
\* get_devices returns exactly that list at once: the only requests of the call
\* are the profile request (and the login it may need), no discovery probe and
\* no device-endpoint request is sent, and the cache is left as it was.
C11_ProfileShortcut ==
    [][(Running("get_devices", "start") /\ EmbedsDevices(last'.result))
          => /\ stack' = Front(stack)
             /\ rv' = Returned("get_devices", "value",
                               JList(last'.result.userprofile.devices.items), FALSE)
             /\ last'.by = "get_user_profile"
             /\ nreq' = Len(last'.trace)
             /\ \A i \in 1..Len(last'.trace) : last'.trace[i] \in AuthPaths
             /\ working_endpoints' = working_endpoints]_vars

C11_Witness ==
    /\ hist.op = "get_devices" /\ Idle /\ ~hist.cached0
    /\ last.by = "get_user_profile" /\ EmbedsDevices(last.result)
    /\ rv = Returned("get_devices", "value", JList(<<Device(1)>>), FALSE)
    /\ working_endpoints = <<>> /\ nreq = 1

\* the cache positions get_devices has requested so far in its cached loop
Attempted ==
    {j \in 1..Len(working_endpoints) :
        j < Top.idx /\ StartsWithDevices_(working_endpoints[j].key)}

\* C13: get_devices moves from the cached entries on to its fallback list only
\* after it has requested every entry of the working-endpoint cache (all of them
\* are devices-family entries), the entry of the unversioned endpoint included.
C13_EveryFamilyEntryTried ==
    [][(Running("get_devices", "cached") /\ Running("get_devices", "fallback")')
          => Attempted = 1..Len(working_endpoints)]_vars

----------------------------------------------------------------------------
(* _api_request and authenticate as functions of the server's responses    *)

\* C17: _api_request always returns a (payload, status) pair.  The payload is
\* non-null only with status 200; a request that was sent returns the body with
\* 200 for a 200 response (a null payload when the body is not JSON), (null, S)
\* for any other status S with or without raise_for_status, and (null, 500) for
\* a connection error or timeout; a request that was not sent returns (null,
\* 400) for an unsupported method and (null, 401) when authentication failed.
C17_NeverRaises ==
    io.fn = "_api_request"
        => /\ io.result # JNone => io.status = 200
           /\ io.sends = 1 <=> (io.ok /\ io.method \in Methods)
           /\ (io.sends = 1 /\ io.resp.st = 200)
                 => (io.result = io.resp.body /\ io.status = 200)
           /\ (io.sends = 1 /\ io.resp.st \notin {0, 200})
                 => (io.result = JNone /\ io.status = io.resp.st)
           /\ (io.sends = 1 /\ io.resp.st = 0)
                 => (io.result = JNone /\ io.status = 500)
           /\ (io.sends = 0 /\ io.ok) => (io.result = JNone /\ io.status = 400)
           /\ ~io.ok => (io.result = JNone /\ io.status = 401)

C17_Witness ==
    /\ io.fn = "_api_request" /\ io.sends = 1 /\ io.rfs
    /\ io.resp = Resp(404, JDict(SAbsent, SAbsent, None, NoUserprofile, TRUE))
    /\ io.result = JNone /\ io.status = 404

----------------------------------------------------------------------------
(* The device operations                                                   *)

ReadOps == {"get_device", "get_temperatures", "get_alerts"}
Begins(fn) == Idle /\ hist'.op = fn
Returns(fn) == ~Idle /\ Idle' /\ hist.op = fn
Asked == opcall.args.device

\* C14: get_device keeps a positive-result cache.  A call for a cached id returns
\* the cached value at once, with no request; a call that returns a non-null
\* device has stored exactly that value under its id; a stored value is never
\* changed or dropped by any operation; a call that returns null has tried every
\* candidate and stored nothing, and a call for an id that is not cached probes.
C14_PositiveCache ==
    [][/\ (Begins("get_device") /\ CacheHas(device_cache, Asked'))
            => /\ Idle'
               /\ rv' = Returned("get_device", "value",
                                 CacheGet(device_cache, Asked'), FALSE)
               /\ nreq' = 0
               /\ last' = NoExchange
       /\ (Begins("get_device") /\ ~CacheHas(device_cache, Asked'))
            => (~Idle' /\ Top'.todo # <<>>)
       /\ (Returns("get_device") /\ ~IsNone(rv'.val))
            => /\ CacheHas(device_cache', Asked)
               /\ CacheGet(device_cache', Asked) = rv'.val
       /\ (Returns("get_device") /\ IsNone(rv'.val))
            => /\ device_cache' = device_cache
               /\ ~CacheHas(device_cache', Asked)
               /\ Len(opcall'.tried) = Len(DerivedVersions(working_endpoints)) + 5
               /\ \A i \in 1..Len(opcall'.tried) : IsNone(opcall'.tried[i].result)
       /\ Len(device_cache') >= Len(device_cache)
       /\ \A i \in 1..Len(device_cache) : device_cache'[i] = device_cache[i]]_vars

\* a call answered from the cache while another device is cached too
C14_Witness ==
    /\ Idle /\ hist.op = "get_device" /\ opcall.tried = <<>> /\ nreq = 0
    /\ rv.kind = "value" /\ ~IsNone(rv.val)
    /\ Len(device_cache) = 2
    /\ CacheGet(device_cache, "1") # CacheGet(device_cache, "2")

\* C15: a read operation that begins with an empty working-endpoint cache runs
\* endpoint discovery before it requests its first candidate.
C15_DiscoversFirst ==
    [][(hist.op \in ReadOps /\ ~hist.cached0
            /\ opcall.tried = <<>> /\ opcall'.tried # <<>>)
          => last.by = "discover"]_vars

\* the body the arguments of a create_alert call ask for
C16_Body ==
    LET a == opcall.args
    IN  [device |-> a.device, channel |-> a.channel,
         min_temp |-> IF a.min_temp.p = "none" THEN [p |-> "absent", v |-> 0]
                      ELSE [p |-> "num", v |-> a.min_temp.v],
         max_temp |-> IF a.max_temp.p = "none" THEN [p |-> "absent", v |-> 0]
                      ELSE [p |-> "num", v |-> a.max_temp.v]]

\* C16: every request of create_alert carries the same body: device, channel
\* and exactly the optional fields that were provided, an absent one omitted and
\* never null.  The requests go first to the candidates derived from the cached
\* devices_ entries (alerts, then devices/{id}/alerts, per entry in cache order),
\* then to the three fallback candidates; each one but the last returned null,
\* and the call returns the first non-null payload, or null after all of them.
C16_BodyAndOrder ==
    hist.op = "create_alert"
        => LET t == opcall.tried
               vs == DerivedVersions(working_endpoints)
               n == Len(vs)
               own == "devices/" \o Asked \o "/alerts"
               fallback == <<Info("alerts", None), Info("alerts", "v1"),
                             Info(own, None)>>
           IN  /\ Len(t) <= 2 * n + 3
               /\ \A i \in 1..Len(t) :
                     /\ t[i].body = C16_Body
                     /\ t[i].body.min_temp.p # "null"
                     /\ t[i].body.max_temp.p # "null"
                     /\ i < Len(t) => IsNone(t[i].result)
                     /\ i <= 2 * n =>
                           /\ t[i].version = vs[(i + 1) \div 2]
                           /\ t[i].endpoint = IF i % 2 = 1 THEN "alerts" ELSE own
                     /\ i > 2 * n =>
                           Info(t[i].endpoint, t[i].version) = fallback[i - 2 * n]
               /\ (Idle /\ t # <<>> /\ ~IsNone(t[Len(t)].result))
                     => rv = Returned("create_alert", "value", t[Len(t)].result, FALSE)
               /\ (Idle /\ (t = <<>> \/ IsNone(t[Len(t)].result)))
                     => /\ rv = Returned("create_alert", "value", JNone, FALSE)
                        /\ Len(t) = 2 * n + 3

\* the fourth request, a fallback one after two derived ones, succeeds with a
\* body that carries max_temp = 0 and no min_temp
C16_Witness ==
    /\ Idle /\ hist.op = "create_alert" /\ Len(opcall.tried) = 4
    /\ Len(DerivedVersions(working_endpoints)) = 1
    /\ opcall.args.min_temp = NoArg /\ opcall.args.max_temp = Arg(0)
    /\ opcall.tried[4].body.min_temp.p = "absent"
    /\ opcall.tried[4].body.max_temp = [p |-> "num", v |-> 0]
    /\ ~IsNone(rv.val)

----------------------------------------------------------------------------
(* The poll tick                                                           *)

\* the profile the running or finished tick obtained
TickProfile == IF tick.pc = "done" THEN tick.out.profile ELSE tick.data.profile
TickDevicesOf == IF tick.pc = "done" THEN tick.out.devices ELSE tick.data.devices

\* C12: in a tick whose profile embeds a non-empty device list, the devices of
\* the snapshot are that list and no discovery probe is sent.
C12_NoProbeInShortcutTick ==
    (tick.pc # "none" /\ EmbedsDevices(TickProfile))
        => /\ TickDevicesOf = TickProfile.userprofile.devices.items
           /\ ~(last.by = "discover" /\ last.sends = 1)

\* get_devices, called by the tick, let an exception out
TickRaised == tick.pc = "done" /\ hist.op = "get_devices" /\ rv.kind = "raise"

\* C19: a tick that ends has returned a snapshot with a device list, never an
\* exception, and a tick that has begun can always go on.  When get_devices
\* raised inside the tick, the snapshot carries an error and no devices: the
\* profile and what was gathered with it when a profile was obtained, else the
\* all-empty snapshot.
C19_AlwaysASnapshot ==
    /\ tick.pc = "done" => tick.out.kind = "snapshot"
    /\ tick.pc \notin {"none", "done"} => ENABLED TickNext
    /\ TickRaised
          => /\ tick.out.error # Missing
             /\ tick.out.devices = <<>>
             /\ \/ Truthy(tick.out.profile)
                \/ tick.out = Snapshot("snapshot", JNone, <<>>,
                                       [p |-> "absent", v |-> <<>>], "exception", Missing)

C19_Witness ==
    /\ TickRaised /\ Truthy(tick.out.profile)
    /\ tick.out.error = "exception" /\ tick.out.devices = <<>>
    /\ tick.out.working_endpoints.v # <<>>

\* C20: a finished tick without devices returned an empty device list, an error
\* and api_status "limited"; api_status is "connected" exactly when the
\* snapshot holds a profile and a non-empty device list.
C20_NoDevicesIsLimited ==
    tick.pc = "done"
        => /\ tick.out.devices = <<>>
                 => (tick.out.error # Missing /\ tick.out.api_status = "limited")
           /\ tick.out.api_status = "connected"
                 <=> (Truthy(tick.out.profile) /\ tick.out.devices # <<>>)

\* C21: every snapshot a tick returns has the keys profile, devices,
\* working_endpoints and api_status (profile and devices are keys of every
\* snapshot of the model; the other two may be missing).
C21_AllFieldsPresent ==
    tick.pc = "done"
        => /\ tick.out.kind = "snapshot"
           /\ tick.out.working_endpoints.p # "absent"
           /\ tick.out.api_status # Missing

\* the lists a payload can give to get_devices
ListsIn(b) ==
    {b.items, b.devices.items, b.results.items, b.userprofile.devices.items}

\* C22: a tick builds its snapshot from scratch.  The data of a tick start from
\* the profile response of that tick alone (profile, the devices it embeds, the
\* error of a missing profile), do not change while discovery and get_devices
\* run, and end as the snapshot: with the devices get_devices returned in this
\* tick, taken from the response it just received, or with the error of this
\* tick.  The snapshot of the previous tick stays with the coordinator until
\* then and enters nothing.
C22_FromScratch ==
    [][/\ (tick.pc \in {"none", "done", "cancelled"} /\ tick'.pc = "profile")
            => LET r == last'.result
               IN  /\ last'.by = "get_user_profile"
                   /\ tick'.data.profile = IF Truthy(r) THEN r ELSE JNone
                   /\ tick'.data.devices = IF EmbedsDevices(r)
                                           THEN r.userprofile.devices.items ELSE <<>>
                   /\ tick'.data.error = IF Truthy(r) THEN Missing
                                         ELSE "Unable to retrieve user profile"
                   /\ tick'.out = tick.out
       /\ tick'.pc = "cancelled" => tick'.out = tick.out
       /\ (tick.pc \in {"profile", "discover", "devices"}
              /\ tick'.pc \notin {"done", "cancelled"})
            => /\ tick'.data.profile = tick.data.profile
               /\ tick'.data.devices = tick.data.devices
               /\ tick'.data.error = tick.data.error
               /\ tick'.out = tick.out
       /\ (tick.pc = "discover" /\ tick'.pc = "done")
            => /\ tick'.out.profile = tick.data.profile
               /\ tick'.out.devices = tick.data.devices
               /\ tick'.out.error = tick.data.error
       /\ (tick.pc = "devices" /\ tick'.pc = "done" /\ rv.kind = "value")
            => /\ tick'.out.profile = tick.data.profile
               /\ tick'.out.devices = rv.val.items
               /\ rv.val.items # <<>>
                     => /\ last.by \in {"get_devices", "get_user_profile"}
                        /\ rv.val.items \in ListsIn(last.result)
                        /\ tick'.out.error = tick.data.error
               /\ rv.val.items = <<>> => tick'.out.error = "No devices found"
       /\ (tick.pc = "devices" /\ tick'.pc = "done" /\ rv.kind = "raise")
            => /\ tick'.out.profile = tick.data.profile
               /\ tick'.out.devices = <<>>
               /\ tick'.out.error = "exception"]_vars

\* the coordinator holds a snapshot with a device and no error, and the tick
\* now running got no profile: its data hold no device and the profile error
C22_Witness ==
    /\ tick.pc = "devices"
    /\ tick.out.kind = "snapshot" /\ tick.out.devices # <<>>
    /\ tick.out.error = Missing
    /\ tick.data.devices = <<>> /\ tick.data.profile = JNone
    /\ tick.data.error = "Unable to retrieve user profile"

\* C23: a failed authenticate() does not fail the setup. Once async_setup_entry
\* has returned, it returned True and hass.data holds the coordinator and the
\* client of the entry, whatever authenticate() returned and whatever the first
\* refresh produced; and a first refresh that is over always lets the setup
\* finish.
C23_SetupNonFatal ==
    /\ entry.result # "none" => entry.result = "true" /\ entry.registered
    /\ (entry.result = "none" /\ tick.pc = "done") => ENABLED SetupFinish
    /\ entry.result # "none" => entry.auth \in {"ok", "failed"} /\ tick.pc # "none"

\* authenticate() failed, the first refresh gave a snapshot with no profile and
\* no devices, and the setup returned True with the entry registered
C23_Witness ==
    /\ entry.auth = "failed"
    /\ entry.result = "true"
    /\ entry.registered
    /\ tick.pc = "done"
    /\ tick.out.kind = "snapshot"
    /\ tick.out.profile = JNone
    /\ tick.out.devices = <<>>

\* C24: the config flow creates an entry only for a username that matches the
\* e-mail pattern, a successful authenticate() and a truthy profile. A form
\* shown again after a submit carries "invalid_auth" for a username that does
\* not match (no request was sent for it) or a failed login, "cannot_connect"
\* for a profile that could not be retrieved, and "unknown" only when
\* get_devices raised; a get_devices that returned, an empty list included,
\* always lets the entry be created.
C24_FlowOutcome ==
    /\ flow.created => flow.email /\ flow.login /\ flow.profile /\ flow.errors = ""
    /\ (flow.pc = "form" /\ flow.errors # "")
          => /\ ~flow.email => flow.errors = "invalid_auth" /\ flow.sent = 0
             /\ (flow.email /\ ~flow.login) => flow.errors = "invalid_auth"
             /\ (flow.email /\ flow.login /\ ~flow.profile)
                   => flow.errors = "cannot_connect"
             /\ (flow.email /\ flow.login /\ flow.profile)
                   => flow.errors = "unknown" /\ rv.kind = "raise"
    /\ flow.pc = "form" => ~flow.created
    /\ (flow.pc = "devices" /\ Idle) => ENABLED FlowDevices
    /\ flow.pc = "created" => flow.created /\ rv.kind = "value"

\* an entry was created although get_devices returned the empty list
C24_Witness ==
    /\ flow.created
    /\ flow.email /\ flow.login /\ flow.profile
    /\ rv.fn = "get_devices" /\ rv.kind = "value" /\ rv.val.items = <<>>

\* the first of temp, temperature, current_temp, value that the channel has
\* with a value that is not null
FirstValue(c) ==
    IF c.temp.p = "num" THEN c.temp
    ELSE IF c.temperature.p = "num" THEN c.temperature
    ELSE IF c.current_temp.p = "num" THEN c.current_temp
    ELSE c.value

\* C25: when the snapshot holds the channel and one of temp, temperature,
\* current_temp, value is present with a non-null value, the state property
\* returns the value of the first such field in that order.
C25_FirstNonNullField ==
    (/\ sensor.read = "state"
     /\ sensor.channel.found
     /\ \E f \in {"temp", "temperature", "current_temp", "value"} :
           sensor.channel[f].p = "num")
        => /\ sensor.ret = FirstValue(sensor.channel)
           /\ sensor.ret.p = "num"
           /\ sensor.state = sensor.ret

\* a channel with current_temp 72.5 and no temp key resolved to 72.5, although
\* it also carries a value field
C25_Witness ==
    /\ sensor.read = "state"
    /\ sensor.channel.found
    /\ sensor.channel.temp = Absent
    /\ sensor.channel.temperature = Absent
    /\ sensor.channel.current_temp = Num(725)
    /\ sensor.channel.value = Num(0)
    /\ sensor.ret = Num(725)

\* C26: the unit a read returns depends on the unit string of the channel in
\* the current snapshot alone: Fahrenheit when it holds "F", else Celsius when
\* it holds "C", and Fahrenheit when it is absent or holds neither.
C26_UnitFromCurrentSnapshot ==
    (sensor.read = "unit" /\ sensor.channel.found /\ sensor.channel.unit.p # "null")
        => LET u == Upper(sensor.channel.unit.v)
           IN  /\ ~sensor.raised
               /\ sensor.uret = IF Contains(u, "F") THEN "F"
                                ELSE IF Contains(u, "C") THEN "C"
                                ELSE "F"

\* C27: after a successful tick every device of the snapshot carries a temps
\* field and an alerts field, each of them a list.
C27_DevicesAugmented ==
    (tick.pc = "done" /\ tick.out.kind = "snapshot" /\ tick.out.error = Missing)
        => \A i \in DOMAIN tick.out.devices :
              /\ tick.out.devices[i].temps.p = "list"
              /\ tick.out.devices[i].alerts.p = "list"

\* the tick now running follows a tick that was cancelled with entries cached
AfterCancel == tick.kept.p = "dict" /\ tick.kept.v # <<>>

\* C28: cancelling a poll leaves the working-endpoint cache, the token and the
\* user id of the client as they are; the poll that follows finds the entries
\* cached before the cancellation, makes no discovery probe (its discovery
\* hands the cached entries to the tick) and get_devices sends its requests
\* to the cached entries.
C28_CancelKeepsCache ==
    /\ [][(tick.pc # "cancelled" /\ tick'.pc = "cancelled")
             => /\ working_endpoints' = working_endpoints
                /\ token' = token
                /\ user_id' = user_id
                /\ tick'.kept.v = working_endpoints
                /\ tick'.out = tick.out]_vars
    /\ [](AfterCancel
             => /\ working_endpoints = tick.kept.v
                /\ last.by # "discover"
                /\ tick.pc = "devices"
                      => tick.data.working_endpoints = [p |-> "dict", v |-> tick.kept.v]
                /\ (Running("get_devices", "cached") /\ Top.idx > 1)
                      => /\ last.by = "get_devices"
                         /\ \E i \in DOMAIN tick.kept.v :
                               /\ tick.kept.v[i].endpoint = last.endpoint
                               /\ tick.kept.v[i].version = last.version)

\* a poll was cancelled in the middle of a sweep that had cached an entry, and
\* the next poll has sent a get_devices request to that entry
C28_Witness ==
    /\ AfterCancel
    /\ tick.kept.sweep
    /\ tick.pc = "devices"
    /\ Running("get_devices", "cached")
    /\ Top.idx > 1
    /\ last.by = "get_devices"
    /\ last.sends > 0

\* the place of x in the sequence s
Pos(s, x) == CHOOSE i \in 1..Len(s) : s[i] = x
SweepOrder == <<"v1", "v2", "v3", "v4", "drive", "cloud", "mobile", None>>

\* C29: a sweep probes the candidates in the order v1, v2, v3, v4, drive,
\* cloud, mobile, unversioned, and under each version every path in list order:
\* its first probe is the first path under v1, each later probe is the next
\* candidate after the one before it, whatever that one returned, and the
\* sweep returns exactly after the last path of the unversioned form.
C29_SweepOrder ==
    [][(Running("discover", "sweep") /\ stack' # stack)
          => LET P == Top.eps
                 pv == Pos(SweepOrder, last.version)
                 pp == Pos(P, last.endpoint)
                 nv == Pos(SweepOrder, last'.version)
                 np == Pos(P, last'.endpoint)
             IN  /\ last'.by = "discover"
                 /\ \E i \in 1..Len(P) : P[i] = last'.endpoint
                 /\ last.by # "discover" => nv = 1 /\ np = 1
                 /\ last.by = "discover"
                       => IF pp < Len(P) THEN nv = pv /\ np = pp + 1
                          ELSE nv = pv + 1 /\ np = 1
                 /\ (Len(stack') < Len(stack)) <=> (nv = 8 /\ np = Len(P))
                 /\ Len(stack') >= Len(stack)
                       => /\ Len(stack') = Len(stack)
                          /\ stack'[Len(stack')].pc = "sweep"
                          /\ stack'[Len(stack')].eps = P]_vars

\* a sweep that began with an empty cache has cached an entry under v1 and has
\* gone on through the other versions to the unversioned form
C29_Witness ==
    /\ Running("discover", "sweep")
    /\ ~hist.cached0
    /\ working_endpoints # <<>>
    /\ working_endpoints[1].version = "v1"
    /\ last.by = "discover"
    /\ last.version = None
    /\ last.endpoint = "device/list"

\* a get_devices call of either task is part-way through its loop over the
\* working-endpoint dict, suspended at a request
Iterating(frames) ==
    \E i \in DOMAIN frames :
        frames[i].fn = "get_devices" /\ frames[i].pc = "cached" /\ frames[i].idx > 1

\* C30: while a get_devices call is suspended inside its loop over the
\* working-endpoint dict, no step of the other call adds an entry to the dict.
C30_NoGrowthWhileIterating ==
    [][(Iterating(stack) \/ Iterating(parked))
          => Len(working_endpoints') = Len(working_endpoints)]_vars

\* the login of the request recorded in io did not give a token
LoginFailed(c) == ~c.creds \/ c.login.st # 200 \/ c.login.key = NoKey

MarksWorking(e) ==
    e.status = 200 /\ (IsList(e.result) \/ (IsDict(e.result) /\ Truthy(e.result)))

\* C33: a probe of a sweep changes the cache exactly when its candidate is
\* accepted, so a sweep that accepts none ends with the cache empty; and a
\* discovery call that finds the cache empty begins the sweep at the first
\* candidate, whatever happened in earlier calls, while one that finds an
\* entry returns without a request.
C33_EmptyCacheSweepsAgain ==
    [][/\ (Running("discover", "sweep") /\ stack' # stack /\ tick'.pc = tick.pc)
             => /\ working_endpoints' # working_endpoints => MarksWorking(last')
                /\ MarksWorking(last') => working_endpoints' # <<>>
                /\ ~MarksWorking(last') => working_endpoints' = working_endpoints
       /\ (Running("discover", "enter") /\ stack' # stack /\ tick'.pc = tick.pc)
             => /\ working_endpoints' = working_endpoints
                /\ IF working_endpoints = <<>>
                   THEN /\ Len(stack') = Len(stack)
                        /\ stack'[Len(stack')].pc = "sweep"
                        /\ stack'[Len(stack')].vi = 1
                        /\ stack'[Len(stack')].ei = 1
                   ELSE /\ Len(stack') < Len(stack)
                        /\ nreq' = nreq]_vars

\* the discovery of this tick swept every candidate and returned an empty
\* cache, and the discovery that get_devices calls in the same tick is
\* sweeping again
C33_Witness ==
    /\ tick.pc = "devices"
    /\ tick.data.working_endpoints = [p |-> "dict", v |-> <<>>]
    /\ Len(stack) = 2
    /\ Running("discover", "sweep")
    /\ Top.vi = 2
    /\ last.by = "discover"
    /\ working_endpoints = <<>>

\* a discovery sweep is under way in the running call
SweepRunning(frames) ==
    \E i \in DOMAIN frames : frames[i].fn = "discover" /\ frames[i].pc = "sweep"

\* C34: when the cache holds an entry and the sweep that wrote it is over,
\* completed or abandoned, no later step of any operation changes the cache,
\* begins a sweep or probes a candidate: the keys never grow again.
C34_KeysNeverGrowAgain ==
    [][(working_endpoints # <<>> /\ ~SweepRunning(stack))
          => /\ working_endpoints' = working_endpoints
             /\ ~SweepRunning(stack')
             /\ last' # last => last'.by # "discover"]_vars

\* a sweep was abandoned after it had cached one entry; the next tick has gone
\* through discovery and the cached entry and is at the fallback endpoints of
\* get_devices, and the cache still holds that one entry
C34_Witness ==
    /\ AfterCancel
    /\ tick.kept.sweep
    /\ Len(tick.kept.v) = 1
    /\ tick.pc = "devices"
    /\ Running("get_devices", "fallback")
    /\ Top.todo # <<>>
    /\ last.by = "get_devices"
    /\ working_endpoints = tick.kept.v

\* the operations that only read the caches
Readers == {"create_alert", "delete_alert", "get_temperatures", "get_alerts"}

\* the step belongs to a top-level call of one of fns: it begins it, is one of
\* its requests, or is its return
StepOf(fns) ==
    \/ stack # <<>> /\ stack[1].fn \in fns
    \/ stack = <<>> /\ hist'.op \in fns /\ (stack' # <<>> \/ rv' # rv \/ hist' # hist)

\* the device-cache entries kept under an id other than id
OtherEntries(dc, id) == {dc[i] : i \in {j \in 1..Len(dc) : dc[j].id # id}}

\* C35: no step of create_alert, delete_alert, get_temperatures or get_alerts,
\* whatever the outcome, changes the working-endpoint cache or the device
\* cache; no step of get_device changes the working-endpoint cache or a
\* device-cache entry of an id other than the one it was called with.
C35_CachesOnlyRead ==
    [][/\ StepOf(Readers)
            => /\ working_endpoints' = working_endpoints
               /\ device_cache' = device_cache
       /\ StepOf({"get_device"})
            => /\ working_endpoints' = working_endpoints
               /\ OtherEntries(device_cache', opcall'.args.device)
                     = OtherEntries(device_cache, opcall'.args.device)
               /\ Len(device_cache') <= Len(device_cache) + 1
               /\ opcall'.args.device \in DeviceIds]_vars

\* get_device for id "2" has just stored its payload next to the entry of "1",
\* with a discovered endpoint in the working-endpoint cache
C35_Witness ==
    /\ hist.op = "get_device"
    /\ Idle
    /\ rv.fn = "get_device"
    /\ ~IsNone(rv.val)
    /\ last.by = "get_device"
    /\ opcall.args.device = "2"
    /\ Len(device_cache) = 2
    /\ device_cache[1].id = "1"
    /\ device_cache[2].id = "2"
    /\ device_cache[2].value = rv.val
    /\ working_endpoints # <<>>

\* C36 as stated: one _api_request makes at most one authenticate call, whose
\* one nested profile request never authenticates again: whatever the server
\* answers, a request sends at most one login POST, one profile GET and itself.
C36_BoundedRecursion ==
    last.by = "_api_request" => last.logins <= 1 /\ Len(last.trace) <= 3

----------------------------------------------------------------------------
(* Setup and unload of config entries, hacs revision of __init__.py, and   *)
(* the services of service.py                                             *)

\* the services async_setup_services registers, service.py lines 113-124
Services == {"create_alert", "delete_alert", "refresh_data"}

\* a setup that registers the services for every entry but the first
ServicesAfterSetupLater(data, services) ==
    IF Cardinality(data) = 1 THEN services ELSE Services

\* lines 108-110: the services are set up when the stored entry is the only one
ServicesAfterSetup(data, services) ==
    IF Cardinality(data) = 1 THEN Services ELSE services

\* an unload that unregisters the services whatever entries remain
ServicesAfterUnloadAlways(data, services) == {}

\* lines 139-141 and service.py lines 127-136: the services are removed when
\* no entry is left
ServicesAfterUnload(data, services) ==
    IF data = {} THEN {} ELSE services

\* lines 36-49: the setup of an entry begins and awaits async_get_devices
HassSetupBegin(e) ==
    /\ hass.pc[e] \in {"new", "failed", "unloaded"}
    /\ hass' = [hass EXCEPT !.pc[e] = "verify"]

\* lines 49-52: None ends the setup with False; else the setup goes on to
\* await the first refresh (line 94)
HassSetupVerify(e) ==
    /\ hass.pc[e] = "verify"
    /\ \E connected \in BOOLEAN :
          hass' = [hass EXCEPT !.pc[e] = IF connected THEN "refresh" ELSE "failed"]

\* lines 94-118: a first refresh that fails raises out of the setup; else the
\* entry is stored, the services are set up when it is the only one, and the
\* setup returns True.  No await suspends the task between the store and the
\* registration (async_setup_services awaits nothing)
HassSetupStore(e) ==
    /\ hass.pc[e] = "refresh"
    /\ \E refreshed \in BOOLEAN :
          IF refreshed
          THEN LET data == hass.data \cup {e}
               IN  hass' = [hass EXCEPT !.pc[e] = "loaded",
                                        !.data = data,
                                        !.services = ServicesAfterSetup(data, @)]
          ELSE hass' = [hass EXCEPT !.pc[e] = "failed"]

\* lines 125-134: the unload of a loaded entry begins and awaits the unload of
\* its platforms
HassUnloadBegin(e) ==
    /\ hass.pc[e] = "loaded"
    /\ hass' = [hass EXCEPT !.pc[e] = "unloading"]

\* lines 136-143: when the platforms unloaded, the entry is removed and the
\* services are unregistered if it was the last; else nothing changes
HassUnloadFinish(e) ==
    /\ hass.pc[e] = "unloading"
    /\ \E unload_ok \in BOOLEAN :
          IF unload_ok
          THEN LET data == hass.data \ {e}
               IN  hass' = [hass EXCEPT !.pc[e] = "unloaded",
                                        !.data = data,
                                        !.services = ServicesAfterUnload(data, @)]
          ELSE hass' = [hass EXCEPT !.pc[e] = "loaded"]

HassInit ==
    /\ creds \in BOOLEAN
    /\ token = None
    /\ headers = NoKey
    /\ user_id = None
    /\ working_endpoints = <<>>
    /\ device_cache = <<>>
    /\ stack = <<>>
    /\ last = NoExchange
    /\ rv = NoReturn
    /\ nreq = 0
    /\ hist = [op |-> "", cached0 |-> FALSE, prevGetDevices |-> FALSE,
               replaced |-> FALSE]
    /\ server = "any"
    /\ io = NoCall
    /\ opcall = NoOp
    /\ tick = NoTick
    /\ entry = NoEntry
    /\ flow = NoFlow
    /\ sensor = NoSensor
    /\ parked = <<>>
    /\ hass = NoHass
    /\ status_sensor = NoStatus

HassStep(e) ==
    \/ HassSetupBegin(e)
    \/ HassSetupVerify(e)
    \/ HassSetupStore(e)
    \/ HassUnloadBegin(e)
    \/ HassUnloadFinish(e)

HassNext ==
    /\ \E e \in Entries : HassStep(e)
    /\ UNCHANGED <<creds, token, headers, user_id, working_endpoints, device_cache,
                   stack, last, rv, nreq, hist, server, io, opcall, tick, entry,
                   flow, sensor, parked, status_sensor>>

HassSpec == HassInit /\ [][HassNext]_vars

\* C37: at every point between the steps of any setups and unloads, the three
\* services are registered exactly when hass.data holds at least one entry,
\* and an unload that leaves another entry loaded leaves them registered.
C37_ServicesIffEntryLoaded ==
    /\ [](/\ hass.services \in {{}, Services}
          /\ hass.services = Services <=> hass.data # {}
          /\ hass.data = {e \in Entries : hass.pc[e] \in {"loaded", "unloading"}})
    /\ [][(hass'.data # hass.data /\ hass.data # {} /\ hass'.data # {})
             => hass'.services = Services /\ hass.services = Services]_vars

\* entry 1 was unloaded while entry 2 stays loaded and entry 3 is being set up:
\* the services are still registered
C37_Witness ==
    /\ hass.pc[1] = "unloaded"
    /\ hass.pc[2] = "loaded"
    /\ hass.pc[3] = "refresh"
    /\ hass.data = {2}
    /\ hass.services = Services

----------------------------------------------------------------------------
(* FireboardStatusSensor, sensor.py lines 125-162                          *)

\* a profile as a tick stores it: a non-empty dict
SomeProfile == JDict(SAbsent, SAbsent, "5", NoUserprofile, FALSE)

\* what coordinator.data may hold after a poll: the snapshots async_update_data
\* returns, with or without profile, devices, error text and api_status
StatusSnapshots ==
    {s \in {Snapshot("snapshot", p, d, w, e, a) :
                p \in {JNone, SomeProfile}, d \in DeviceLists,
                w \in {[p |-> "absent", v |-> <<>>], [p |-> "dict", v |-> <<>>]},
                e \in {Missing, "exception", "No devices found"},
                a \in {Missing, "connected", "limited"}} :
        s.api_status \in {Missing, ApiStatus(s.profile, s.devices)}}

\* a state that looks at the profile before the devices
StatusStateProfileFirst(ok, data, held) ==
    IF ~ok THEN "disconnected"
    ELSE IF data.kind = "snapshot"
    THEN IF Truthy(data.profile) THEN "authenticated"
         ELSE IF data.devices # <<>> THEN "connected"
         ELSE "error"
    ELSE "connecting"

\* state, lines 148-162; held is the _state of the last read
StatusState(ok, data, held) ==
    IF ~ok THEN "disconnected"
    ELSE IF data.kind = "snapshot"
    THEN IF data.devices # <<>> THEN "connected"
         ELSE IF Truthy(data.profile) THEN "authenticated"
         ELSE "error"
    ELSE "connecting"

\* the coordinator finished a poll: it holds the new snapshot
StatusUpdated ==
    /\ \E d \in StatusSnapshots :
          status_sensor' = [status_sensor EXCEPT !.ok = TRUE, !.data = d,
                                                 !.read = FALSE]
    /\ UNCHANGED <<creds, token, headers, user_id, working_endpoints, device_cache,
                   stack, last, rv, nreq, hist, server, io, opcall, tick, entry,
                   flow, sensor, parked, hass>>

\* the coordinator's poll failed: it keeps the data it had
StatusUpdateFailed ==
    /\ status_sensor' = [status_sensor EXCEPT !.ok = FALSE, !.read = FALSE]
    /\ UNCHANGED <<creds, token, headers, user_id, working_endpoints, device_cache,
                   stack, last, rv, nreq, hist, server, io, opcall, tick, entry,
                   flow, sensor, parked, hass>>

\* Home Assistant reads the state property
ReadStatus ==
    /\ LET s == StatusState(status_sensor.ok, status_sensor.data, status_sensor.state)
       IN  status_sensor' = [status_sensor EXCEPT !.state = s, !.ret = s,
                                                  !.read = TRUE]
    /\ UNCHANGED <<creds, token, headers, user_id, working_endpoints, device_cache,
                   stack, last, rv, nreq, hist, server, io, opcall, tick, entry,
                   flow, sensor, parked, hass>>

StatusInit ==
    /\ creds \in BOOLEAN
    /\ token = None
    /\ headers = NoKey
    /\ user_id = None
    /\ working_endpoints = <<>>
    /\ device_cache = <<>>
    /\ stack = <<>>
    /\ last = NoExchange
    /\ rv = NoReturn
    /\ nreq = 0
    /\ hist = [op |-> "", cached0 |-> FALSE, prevGetDevices |-> FALSE,
               replaced |-> FALSE]
    /\ server = "any"
    /\ io = NoCall
    /\ opcall = NoOp
    /\ tick = NoTick
    /\ entry = NoEntry
    /\ flow = NoFlow
    /\ sensor = NoSensor
    /\ parked = <<>>
    /\ hass = NoHass
    /\ status_sensor = NoStatus

StatusNext == StatusUpdated \/ StatusUpdateFailed \/ ReadStatus

StatusSpec == StatusInit /\ [][StatusNext]_vars

\* C38: what the state property returns depends only on the coordinator's
\* latest result: "disconnected" when the last update failed; else "connected"
\* when the snapshot's devices are non-empty, "authenticated" when it has a
\* profile and no devices, "error" when it has neither, and "connecting"
\* exactly when the coordinator holds no snapshot.
C38_StatusOfLatestPoll ==
    status_sensor.read =>
        LET d == status_sensor.data
            r == status_sensor.ret
        IN  /\ r = status_sensor.state
            /\ r = "disconnected" <=> ~status_sensor.ok
            /\ r = "connected" <=> (status_sensor.ok /\ d.kind = "snapshot"
                                      /\ d.devices # <<>>)
            /\ r = "authenticated" <=> (status_sensor.ok /\ d.kind = "snapshot"
                                          /\ d.devices = <<>> /\ Truthy(d.profile))
            /\ r = "error" <=> (status_sensor.ok /\ d.kind = "snapshot"
                                  /\ d.devices = <<>> /\ ~Truthy(d.profile))
            /\ r = "connecting" <=> (status_sensor.ok /\ d.kind = "none")

\* a snapshot with a profile and a device was read as "connected"
C38_Witness ==
    /\ status_sensor.read
    /\ status_sensor.ok
    /\ status_sensor.data.kind = "snapshot"
    /\ Truthy(status_sensor.data.profile)
    /\ status_sensor.data.devices = <<Device(1)>>
    /\ status_sensor.ret = "connected"

\* the snapshot gives the sensor no temperature: it lacks the device or the
\* channel, or the channel has none of the four fields with a value
NoTemperature(c) ==
    \/ ~c.found
    \/ \A f \in {"temp", "temperature", "current_temp", "value"} : c[f].p # "num"

\* C39: a read of the state property returns the resolved temperature of the
\* channel when the snapshot holds one; when the snapshot lacks the device, the
\* channel or every temperature field, the read returns the value the sensor
\* reported before, and the sensor keeps that value.
C39_KeepsPreviousValue ==
    [][sensor'.read = "state"
          => /\ ~sensor'.raised
             /\ IF NoTemperature(sensor.channel)
                THEN sensor'.ret = sensor.state /\ sensor'.state = sensor.state
                ELSE sensor'.ret = FirstValue(sensor.channel)
                        /\ sensor'.state = sensor'.ret]_vars

============================================================================
